---- MODULE Spec2Model ----
(***************************************************************************)
(* A model of the setsuna-lang tree-walking evaluator: the environment     *)
(* frames (environment.cpp), the expression and declaration evaluator and  *)
(* the module loader (evaluator.cpp), driven by the REPL loop (main.cpp).  *)
(*                                                                         *)
(* Frames live in a heap, `frames`, a sequence indexed by frame id; the    *)
(* shared_ptr<Environment> of the source is a frame id, 0 is nullptr.      *)
(***************************************************************************)
EXTENDS Integers, Sequences, FiniteSets, TLC

VARIABLES
    frames,          \* heap of Environment objects, indexed by frame id
    env_,            \* Evaluator::env_, the evaluator's current environment
    basePath_,       \* Evaluator::basePath_
    moduleCache_,    \* Evaluator::moduleCache_: module name -> frame id
    loadingModules_, \* Evaluator::loadingModules_
    stack,           \* activations of loadModule that are on the call stack
    mode,            \* "idle" (at the prompt), "running", "throwing"
    prog,            \* history: the declarations of the current Program
                     \* evaluated so far, each with the value it yielded
    result,          \* local `result` of Evaluator::eval(const Program&)
    lastResult,      \* value returned by the most recent eval(Program)
    lastErr,         \* kind of the exception in flight / last one caught
    thrownIn,        \* history: the loads in progress when it was thrown
    out,             \* what the built-in print wrote to standard output
    declRuns,        \* history: how often each declaration of each module
                     \* file was evaluated
    lastOp,          \* history: the most recent call and its arguments
    nSteps,          \* number of inputs consumed so far (bounded)
    mapEntries,      \* MapValue::entries of the map value under test
    insertOrder,     \* history: the keys now in that map, by first insertion
    recSource,       \* history: the field names of the record literal
                     \* evaluated, in source order
    recValue,        \* the record value that the literal yielded
    recShown,        \* the text Value::toString returned for it
    source_,         \* Lexer::source_, a sequence of characters
    pos_,            \* Lexer::pos_, the number of characters consumed
    tokens,          \* local `tokens` of Lexer::tokenize
    lexState,        \* "none" (no lexer yet), "scanning", "returned", or
                     \* the exception that left tokenize
    tokens_,         \* Parser::tokens_
    parseInput,      \* history: the operands and operators that tokens_
                     \* was written from
    parsed,          \* what Parser::parse returned or threw
    buffer,          \* repl: local `buffer`, a sequence of characters
    openBraces,      \* repl: local `openBraces`
    openBrackets,    \* repl: local `openBrackets`
    openParens,      \* repl: local `openParens`
    pending,         \* the declarations of the Program that eval(Program)
                     \* has yet to evaluate
    prompt,          \* the prompt last printed, "" after the loop ended
    shown,           \* what the REPL printed: results and errors
    attempts,        \* history: the buffers handed to the Lexer, each with
                     \* the bindings of the global frame at that time
    inferred,        \* what TypeChecker::infer returned or threw
    nextTypeVar_,    \* TypeChecker::nextTypeVar_
    generalized,     \* history: the calls of TypeChecker::generalize, each
                     \* with its arguments and the scheme it returned
    typeHeap         \* heap of Type objects, indexed by address: a TypePtr
                     \* is an address, 0 is nullptr

\* The state of the evaluator and of the REPL that drives it.
evaluatorVars ==
    <<frames, env_, basePath_, moduleCache_, loadingModules_, stack, mode,
      prog, result, lastResult, lastErr, thrownIn, out, declRuns>>

\* The state of the components that evaluating a declaration leaves alone.
mapVars == <<mapEntries, insertOrder>>
recordVars == <<recSource, recValue, recShown>>
lexerVars == <<source_, pos_, tokens, lexState>>
parserVars == <<tokens_, parseInput, parsed>>
replVars ==
    <<buffer, openBraces, openBrackets, openParens, pending, prompt, shown,
      attempts>>
checkerVars == <<inferred, nextTypeVar_, generalized, typeHeap>>
otherVars ==
    <<mapVars, recordVars, lexerVars, parserVars, replVars, checkerVars>>

\* What an operation of one component leaves alone.
exceptMapVars ==
    <<evaluatorVars, recordVars, lexerVars, parserVars, replVars, checkerVars>>
exceptRecordVars ==
    <<evaluatorVars, mapVars, lexerVars, parserVars, replVars, checkerVars>>
exceptLexerVars ==
    <<evaluatorVars, mapVars, recordVars, parserVars, replVars, checkerVars>>
exceptParserVars ==
    <<evaluatorVars, mapVars, recordVars, lexerVars, replVars, checkerVars>>
exceptReplVars == <<mapVars, recordVars, lexerVars, parserVars, checkerVars>>
exceptCheckerVars ==
    <<evaluatorVars, mapVars, recordVars, lexerVars, parserVars, replVars>>

vars == <<evaluatorVars, lastOp, nSteps, otherVars>>

(***************************************************************************)
(* Bounds.                                                                 *)
(***************************************************************************)
MaxDecls == 3
MaxBindDecls == 4
MaxProgDecls == 3
MaxOrderDecls == 2
MaxMatchDecls == 2
MaxEqDecls == 2
MaxMapOps == 3
MaxFields == 3
MaxPieces == 2
MaxOperators == 2
MaxLines == 3
MaxLets == 2
MaxTypes == 3
MaxEnvOps == 4
MaxScopeDecls == 3
MaxUnify == 2

(***************************************************************************)
(* Values (value.hpp).                                                     *)
(***************************************************************************)
makeUnit == [t |-> "unit"]
makeInt(n) == [t |-> "int", v |-> n]
makeBool(b) == [t |-> "bool", v |-> b]
makeClosure(params, body, env) ==
    [t |-> "closure", params |-> params, body |-> body, env |-> env]
makeBuiltin(name, arity, fn) ==
    [t |-> "builtin", name |-> name, arity |-> arity, fn |-> fn]
makeADT(typeName, ctorName, fields) ==
    [t |-> "adt", typeName |-> typeName, ctorName |-> ctorName, fields |-> fields]
makeList(elements) == [t |-> "list", elements |-> elements]
makeTuple(elements) == [t |-> "tuple", elements |-> elements]
\* RecordValue: fields is an unordered_map from field name to value
makeRecord(fields) == [t |-> "record", fields |-> fields]
\* MapValue: entries is a sequence of [key, value] pairs
makeMap(entries) == [t |-> "map", entries |-> entries]
NoValue == [t |-> "nullopt"]

\* MapValue::find: the index of the first entry whose key equals key, or 0.
RECURSIVE Equals(_, _)
RECURSIVE MapValueFind(_, _, _)
MapValueFind(entries, key, i) ==
    IF i > Len(entries) THEN 0
    ELSE IF Equals(entries[i].key, key) THEN i
    ELSE MapValueFind(entries, key, i + 1)

\* An equality without the case for ADT values.
EqualsWithoutADT(a, b) ==
    IF a.t # b.t THEN FALSE
    ELSE CASE a.t = "unit" -> TRUE
           [] a.t \in {"int", "bool"} -> a.v = b.v
           [] a.t \in {"list", "tuple"} ->
                /\ Len(a.elements) = Len(b.elements)
                /\ \A i \in 1..Len(a.elements) :
                      Equals(a.elements[i], b.elements[i])
           [] a.t = "record" ->
                /\ Cardinality(DOMAIN a.fields) = Cardinality(DOMAIN b.fields)
                /\ \A k \in DOMAIN a.fields :
                      k \in DOMAIN b.fields /\ Equals(a.fields[k], b.fields[k])
           [] a.t = "map" ->
                /\ Len(a.entries) = Len(b.entries)
                /\ \A i \in 1..Len(a.entries) :
                      LET j == MapValueFind(b.entries, a.entries[i].key, 1)
                      IN  j # 0 /\ Equals(a.entries[i].value, b.entries[j].value)
           [] OTHER -> FALSE

\* Value::equals
Equals(a, b) ==
    IF a.t # b.t THEN FALSE
    ELSE CASE a.t = "unit" -> TRUE
           [] a.t \in {"int", "bool"} -> a.v = b.v
           [] a.t \in {"list", "tuple"} ->
                /\ Len(a.elements) = Len(b.elements)
                /\ \A i \in 1..Len(a.elements) :
                      Equals(a.elements[i], b.elements[i])
           [] a.t = "record" ->
                /\ Cardinality(DOMAIN a.fields) = Cardinality(DOMAIN b.fields)
                /\ \A k \in DOMAIN a.fields :
                      k \in DOMAIN b.fields /\ Equals(a.fields[k], b.fields[k])
           [] a.t = "map" ->
                /\ Len(a.entries) = Len(b.entries)
                /\ \A i \in 1..Len(a.entries) :
                      LET j == MapValueFind(b.entries, a.entries[i].key, 1)
                      IN  j # 0 /\ Equals(a.entries[i].value, b.entries[j].value)
           [] a.t = "adt" ->
                /\ a.ctorName = b.ctorName
                /\ Len(a.fields) = Len(b.fields)
                /\ \A i \in 1..Len(a.fields) : Equals(a.fields[i], b.fields[i])
           [] OTHER -> FALSE

\* A set that appends without looking for the key.
MapValueSetAppending(entries, key, value) ==
    Append(entries, [key |-> key, value |-> value])

\* MapValue::set
MapValueSet(entries, key, value) ==
    LET i == MapValueFind(entries, key, 1)
    IN  IF i # 0 THEN [entries EXCEPT ![i].value = value]
        ELSE Append(entries, [key |-> key, value |-> value])

\* MapValue::remove
MapValueRemove(entries, key) ==
    LET i == MapValueFind(entries, key, 1)
    IN  IF i # 0
        THEN SubSeq(entries, 1, i - 1) \o SubSeq(entries, i + 1, Len(entries))
        ELSE entries

(***************************************************************************)
(* Environment (environment.hpp, environment.cpp).                         *)
(***************************************************************************)
EmptyMap == [n \in {} |-> 0]
MapPut(m, k, v) == [n \in (DOMAIN m) \cup {k} |-> IF n = k THEN v ELSE m[n]]

Environment(parent) ==
    [parent_ |-> parent, bindings_ |-> EmptyMap, constNames_ |-> {},
     types_ |-> {}, modules_ |-> EmptyMap]

RECURSIVE EnvGet(_, _, _)
EnvGet(fr, e, name) ==
    IF name \in DOMAIN fr[e].bindings_ THEN fr[e].bindings_[name]
    ELSE IF fr[e].parent_ # 0 THEN EnvGet(fr, fr[e].parent_, name)
    ELSE NoValue

RECURSIVE EnvHas(_, _, _)
EnvHas(fr, e, name) ==
    IF name \in DOMAIN fr[e].bindings_ THEN TRUE
    ELSE IF fr[e].parent_ # 0 THEN EnvHas(fr, fr[e].parent_, name)
    ELSE FALSE

RECURSIVE EnvGetModule(_, _, _)
EnvGetModule(fr, e, name) ==
    IF name \in DOMAIN fr[e].modules_ THEN fr[e].modules_[name]
    ELSE IF fr[e].parent_ # 0 THEN EnvGetModule(fr, fr[e].parent_, name)
    ELSE 0

EnvDefine(fr, e, name, value, isConst) ==
    IF ~isConst /\ name \in fr[e].constNames_
    THEN [ok |-> FALSE, fr |-> fr, err |-> "redeclare-const"]
    ELSE [ok |-> TRUE, err |-> "",
          fr |-> [fr EXCEPT ![e].bindings_ = MapPut(@, name, value),
                            ![e].constNames_ =
                                IF isConst THEN @ \cup {name} ELSE @]]

\* A variant of set that omits the const test.
RECURSIVE EnvSetNoConstCheck(_, _, _, _)
EnvSetNoConstCheck(fr, e, name, value) ==
    IF name \in DOMAIN fr[e].bindings_
    THEN [ok |-> TRUE, err |-> "",
          fr |-> [fr EXCEPT ![e].bindings_ = MapPut(@, name, value)]]
    ELSE IF fr[e].parent_ # 0
         THEN EnvSetNoConstCheck(fr, fr[e].parent_, name, value)
         ELSE [ok |-> FALSE, fr |-> fr, err |-> "undefined-variable"]

\* A variant of set that stores into the frame it is called on.
EnvSetCurrentFrame(fr, e, name, value) ==
    IF ~EnvHas(fr, e, name)
    THEN [ok |-> FALSE, fr |-> fr, err |-> "undefined-variable"]
    ELSE IF name \in fr[e].constNames_
    THEN [ok |-> FALSE, fr |-> fr, err |-> "reassign-const"]
    ELSE [ok |-> TRUE, err |-> "",
          fr |-> [fr EXCEPT ![e].bindings_ = MapPut(@, name, value)]]

RECURSIVE EnvSet(_, _, _, _)
EnvSet(fr, e, name, value) ==
    IF name \in DOMAIN fr[e].bindings_
    THEN IF name \in fr[e].constNames_
         THEN [ok |-> FALSE, fr |-> fr, err |-> "reassign-const"]
         ELSE [ok |-> TRUE, err |-> "",
               fr |-> [fr EXCEPT ![e].bindings_ = MapPut(@, name, value)]]
    ELSE IF fr[e].parent_ # 0 THEN EnvSet(fr, fr[e].parent_, name, value)
    ELSE [ok |-> FALSE, fr |-> fr, err |-> "undefined-variable"]

EnvDefineType(fr, e, name) == [fr EXCEPT ![e].types_ = @ \cup {name}]

EnvDefineModule(fr, e, name, moduleEnv) ==
    [fr EXCEPT ![e].modules_ = MapPut(@, name, moduleEnv)]

\* extend() allocates a child frame; its id is the next free heap slot.
EnvExtend(fr, e) == Append(fr, Environment(e))
NewId(fr) == Len(fr) + 1

(***************************************************************************)
(* Syntax tree (ast.hpp).                                                  *)
(***************************************************************************)
IntLiteral(n) == [k |-> "IntLiteral", value |-> n]
BoolLiteral(b) == [k |-> "BoolLiteral", value |-> b]
Identifier(name) == [k |-> "Identifier", name |-> name]
BinaryOp(op, left, right) ==
    [k |-> "BinaryOp", op |-> op, left |-> left, right |-> right]
LetExpr(name, value, isConst) ==
    [k |-> "LetExpr", name |-> name, value |-> value, isConst |-> isConst]
AssignExpr(name, value) == [k |-> "AssignExpr", name |-> name, value |-> value]
FnDef(name, params, body) ==
    [k |-> "FnDef", name |-> name, params |-> params, body |-> body]
Lambda(params, body) == [k |-> "Lambda", params |-> params, body |-> body]
Call(callee, args) == [k |-> "Call", callee |-> callee, args |-> args]
UnaryOp(op, operand) == [k |-> "UnaryOp", op |-> op, operand |-> operand]
FieldAccess(object, field) ==
    [k |-> "FieldAccess", object |-> object, field |-> field]
NoExpr == [k |-> "nullptr"]
IfExpr(condition, thenBranch, elseBranch) ==
    [k |-> "IfExpr", condition |-> condition, thenBranch |-> thenBranch,
     elseBranch |-> elseBranch]
Block(exprs) == [k |-> "Block", exprs |-> exprs]
WhileExpr(condition, body) ==
    [k |-> "WhileExpr", condition |-> condition, body |-> body]
ForExpr(varName, iterable, body) ==
    [k |-> "ForExpr", varName |-> varName, iterable |-> iterable, body |-> body]
ListExpr(elements) == [k |-> "ListExpr", elements |-> elements]
TupleExpr(elements) == [k |-> "TupleExpr", elements |-> elements]
\* fields: a sequence of <<name, expression>> pairs
RecordExpr(fields) == [k |-> "RecordExpr", fields |-> fields]
\* entries: a sequence of <<key expression, value expression>> pairs
MapExpr(entries) == [k |-> "MapExpr", entries |-> entries]
MatchArm(pattern, guard, body) ==
    [pattern |-> pattern, guard |-> guard, body |-> body]
MatchExpr(scrutinee, arms) ==
    [k |-> "MatchExpr", scrutinee |-> scrutinee, arms |-> arms]

WildcardPattern == [k |-> "WildcardPattern"]
VarPattern(name) == [k |-> "VarPattern", name |-> name]
LiteralPattern(value) == [k |-> "LiteralPattern", value |-> value]
ConstructorPattern(ctorName, args) ==
    [k |-> "ConstructorPattern", ctorName |-> ctorName, args |-> args]

ExprDecl(e) == [k |-> "ExprPtr", e |-> e]
TypeConstructor(name, nfields) == [name |-> name, nfields |-> nfields]
TypeDef(name, constructors) ==
    [k |-> "TypeDef", name |-> name, constructors |-> constructors]
ModuleDef(name, body) == [k |-> "ModuleDef", name |-> name, body |-> body]
ImportDecl(moduleName) == [k |-> "ImportDecl", moduleName |-> moduleName]

(***************************************************************************)
(* Expression evaluation (evaluator.cpp).  An evaluation threads the       *)
(* mutable state s = [fr, out, sets, matches]: the frame heap, standard    *)
(* output, and the histories of the calls of Environment::set and of       *)
(* matchPattern from evalMatchExpr.  It yields                             *)
(* [ok, err, v, s]; ok = FALSE is a C++ exception of kind err, and s then  *)
(* holds the effects that happened before the throw.                       *)
(***************************************************************************)
Ok(v, s) == [ok |-> TRUE, err |-> "", v |-> v, s |-> s]
Throw(err, s) == [ok |-> FALSE, err |-> err, v |-> makeUnit, s |-> s]

RECURSIVE eval(_, _, _)
RECURSIVE evalArgs(_, _, _, _)
RECURSIVE evalSeq(_, _, _, _)
RECURSIVE evalArgsRightToLeft(_, _, _, _)
RECURSIVE matchPattern(_, _, _, _)
RECURSIVE evalRecordFields(_, _, _, _)
RECURSIVE evalMapEntries(_, _, _, _)
RECURSIVE matchPatterns(_, _, _, _)
RECURSIVE evalArms(_, _, _, _)
RECURSIVE evalArmsIgnoringGuard(_, _, _, _)
RECURSIVE evalArmsInEnv(_, _, _, _)
RECURSIVE evalWhileLoop(_, _, _, _)
RECURSIVE evalWhileLoopInEnv(_, _, _, _)
RECURSIVE evalForLoop(_, _, _, _, _)

\* Built-ins registered by registerBuiltins / evalTypeDef: the opaque fn.
BuiltinPrint == [kind |-> "print"]
BuiltinCtor(typeName, ctorName) ==
    [kind |-> "ctor", typeName |-> typeName, ctorName |-> ctorName]

InvokeBuiltin(builtin, args, s) ==
    IF builtin.fn.kind = "print"
    THEN Ok(makeUnit, [s EXCEPT !.out = Append(@, args[1])])
    ELSE Ok(makeADT(builtin.fn.typeName, builtin.fn.ctorName, args), s)

evalIdentifier(e, env, s) ==
    LET val == EnvGet(s.fr, env, e.name)
    IN  IF val.t = "nullopt" THEN Throw("undefined-variable", s) ELSE Ok(val, s)

\* && and || without the early return: both operands always evaluated.
evalBinaryOpEager(e, env, s) ==
    LET L == eval(e.left, env, s)
        R == eval(e.right, env, L.s)
    IN  IF ~L.ok THEN L
        ELSE IF ~R.ok THEN R
        ELSE IF e.op \in {"AND", "OR"}
        THEN IF L.v.t # "bool" THEN Throw("bad-variant-access", R.s)
             ELSE IF e.op = "AND" /\ ~L.v.v THEN Ok(makeBool(FALSE), R.s)
             ELSE IF e.op = "OR" /\ L.v.v THEN Ok(makeBool(TRUE), R.s)
             ELSE R
        ELSE IF e.op = "EQ" THEN Ok(makeBool(Equals(L.v, R.v)), R.s)
        ELSE IF e.op = "NEQ" THEN Ok(makeBool(~Equals(L.v, R.v)), R.s)
        ELSE IF L.v.t # "int" \/ R.v.t # "int" THEN Throw("not-a-number", R.s)
        ELSE Ok(makeInt(L.v.v + R.v.v), R.s)

evalBinaryOp(e, env, s) ==
    LET L == eval(e.left, env, s)
    IN  IF ~L.ok THEN L
        ELSE IF e.op = "AND"
        THEN IF L.v.t # "bool" THEN Throw("bad-variant-access", L.s)
             ELSE IF ~L.v.v THEN Ok(makeBool(FALSE), L.s)
             ELSE eval(e.right, env, L.s)
        ELSE IF e.op = "OR"
        THEN IF L.v.t # "bool" THEN Throw("bad-variant-access", L.s)
             ELSE IF L.v.v THEN Ok(makeBool(TRUE), L.s)
             ELSE eval(e.right, env, L.s)
        ELSE LET R == eval(e.right, env, L.s)
             IN  IF ~R.ok THEN R
                 ELSE IF e.op = "EQ" THEN Ok(makeBool(Equals(L.v, R.v)), R.s)
                 ELSE IF e.op = "NEQ"
                 THEN Ok(makeBool(~Equals(L.v, R.v)), R.s)
                 ELSE IF L.v.t # "int" \/ R.v.t # "int"
                 THEN Throw("not-a-number", R.s)
                 ELSE Ok(makeInt(L.v.v + R.v.v), R.s)

evalLetExpr(e, env, s) ==
    LET R == eval(e.value, env, s)
        D == EnvDefine(R.s.fr, env, e.name, R.v, e.isConst)
    IN  IF ~R.ok THEN R
        ELSE IF ~D.ok THEN Throw(D.err, R.s)
        ELSE Ok(R.v, [R.s EXCEPT !.fr = D.fr])

evalAssignExpr(e, env, s) ==
    IF ~EnvHas(s.fr, env, e.name) THEN Throw("undefined-variable", s)
    ELSE LET R == eval(e.value, env, s)
             S == EnvSet(R.s.fr, env, e.name, R.v)
             call == [fr |-> R.s.fr, env |-> env, name |-> e.name,
                      ok |-> S.ok, after |-> S.fr]
         IN  IF ~R.ok THEN R
             ELSE IF ~S.ok
             THEN Throw(S.err, [R.s EXCEPT !.sets = Append(@, call)])
             ELSE Ok(R.v, [R.s EXCEPT !.fr = S.fr, !.sets = Append(@, call)])

evalFnDef(e, env, s) ==
    LET closure == makeClosure(e.params, e.body, env)
        D == EnvDefine(s.fr, env, e.name, closure, FALSE)
    IN  IF ~D.ok THEN Throw(D.err, s)
        ELSE Ok(closure, [s EXCEPT !.fr = D.fr])

evalLambda(e, env, s) == Ok(makeClosure(e.params, e.body, env), s)

\* An argument loop that runs from the last argument to the first.
evalArgsRightToLeft(args, env, s, acc) ==
    IF args = <<>> THEN Ok(acc, s)
    ELSE LET R == eval(args[Len(args)], env, s)
         IN  IF ~R.ok THEN R
             ELSE evalArgsRightToLeft(SubSeq(args, 1, Len(args) - 1), env, R.s,
                                      <<R.v>> \o acc)

\* The loop `for arg in call.args: args.push_back(eval(arg, env))`:
\* acc holds the values pushed so far.
evalArgs(args, env, s, acc) ==
    IF args = <<>> THEN Ok(acc, s)
    ELSE LET R == eval(Head(args), env, s)
         IN  IF ~R.ok THEN R
             ELSE evalArgs(Tail(args), env, R.s, Append(acc, R.v))

\* callEnv->define(params[i], args[i]) for i = 0 .. n-1
RECURSIVE BindParams(_, _, _, _)
BindParams(fr, callEnv, params, args) ==
    IF params = <<>> THEN fr
    ELSE BindParams(EnvDefine(fr, callEnv, Head(params), Head(args), FALSE).fr,
                    callEnv, Tail(params), Tail(args))

\* A call whose frame extends the caller's environment (dynamic scope).
evalCallDynamicScope(e, env, s) ==
    LET C == eval(e.callee, env, s)
        A == evalArgs(e.args, env, C.s, <<>>)
    IN  IF ~C.ok THEN C
        ELSE IF ~A.ok THEN A
        ELSE IF C.v.t = "builtin" THEN InvokeBuiltin(C.v, A.v, A.s)
        ELSE IF C.v.t = "closure"
        THEN IF Len(A.v) # Len(C.v.params) THEN Throw("wrong-arity", A.s)
             ELSE LET callEnv == NewId(A.s.fr)
                      fr1 == EnvExtend(A.s.fr, env)
                      fr2 == BindParams(fr1, callEnv, C.v.params, A.v)
                  IN  eval(C.v.body, callEnv, [A.s EXCEPT !.fr = fr2])
        ELSE Throw("cannot-call-non-function", A.s)

evalCall(e, env, s) ==
    LET C == eval(e.callee, env, s)
        A == evalArgs(e.args, env, C.s, <<>>)
    IN  IF ~C.ok THEN C
        ELSE IF ~A.ok THEN A
        ELSE IF C.v.t = "builtin" THEN InvokeBuiltin(C.v, A.v, A.s)
        ELSE IF C.v.t = "closure"
        THEN IF Len(A.v) # Len(C.v.params) THEN Throw("wrong-arity", A.s)
             ELSE LET callEnv == NewId(A.s.fr)
                      fr1 == EnvExtend(A.s.fr, C.v.env)
                      fr2 == BindParams(fr1, callEnv, C.v.params, A.v)
                  IN  eval(C.v.body, callEnv, [A.s EXCEPT !.fr = fr2])
        ELSE Throw("cannot-call-non-function", A.s)

evalIfExpr(e, env, s) ==
    LET C == eval(e.condition, env, s)
    IN  IF ~C.ok THEN C
        ELSE IF C.v.t # "bool" THEN Throw("bad-variant-access", C.s)
        ELSE IF C.v.v THEN eval(e.thenBranch, env, C.s)
        ELSE IF e.elseBranch.k # "nullptr" THEN eval(e.elseBranch, env, C.s)
        ELSE Ok(makeUnit, C.s)

\* A while loop that evaluates its body in the frame of the loop itself.
evalWhileLoopInEnv(e, env, s, res) ==
    LET WithC(C) ==
            IF ~C.ok THEN C
            ELSE IF C.v.t # "bool" THEN Throw("bad-variant-access", C.s)
            ELSE IF ~C.v.v THEN Ok(res, C.s)
            ELSE LET WithB(B) ==
                         IF ~B.ok THEN B
                         ELSE evalWhileLoopInEnv(e, env, B.s, B.v)
                 IN  WithB(eval(e.body, env, C.s))
    IN  WithC(eval(e.condition, env, s))

\* `while (true)` of evalWhileExpr, with `result` so far.
evalWhileLoop(e, env, s, res) ==
    LET WithC(C) ==
            IF ~C.ok THEN C
            ELSE IF C.v.t # "bool" THEN Throw("bad-variant-access", C.s)
            ELSE IF ~C.v.v THEN Ok(res, C.s)
            ELSE LET WithB(B) ==
                         IF ~B.ok THEN B ELSE evalWhileLoop(e, env, B.s, B.v)
                 IN  WithB(eval(e.body, NewId(C.s.fr),
                                [C.s EXCEPT !.fr = EnvExtend(@, env)]))
    IN  WithC(eval(e.condition, env, s))

evalWhileExpr(e, env, s) == evalWhileLoop(e, env, s, makeUnit)

\* `for (const auto& item : list)` of evalForExpr, with `result` so far.
evalForLoop(e, items, env, s, res) ==
    IF items = <<>> THEN Ok(res, s)
    ELSE LET loopEnv == NewId(s.fr)
             WithB(B) ==
                 IF ~B.ok THEN B
                 ELSE evalForLoop(e, Tail(items), env, B.s, B.v)
         IN  WithB(eval(e.body, loopEnv,
                        [s EXCEPT !.fr = EnvDefine(EnvExtend(@, env), loopEnv,
                                                   e.varName, Head(items),
                                                   FALSE).fr]))

evalForExpr(e, env, s) ==
    LET WithI(I) ==
            IF ~I.ok THEN I
            ELSE IF I.v.t # "list" THEN Throw("for-expected-list", I.s)
            ELSE evalForLoop(e, I.v.elements, env, I.s, makeUnit)
    IN  WithI(eval(e.iterable, env, s))

\* `result = unit; for expr in exprs: result = eval(expr, env)`
evalSeq(exprs, env, s, res) ==
    IF exprs = <<>> THEN Ok(res, s)
    ELSE LET R == eval(Head(exprs), env, s)
         IN  IF ~R.ok THEN R ELSE evalSeq(Tail(exprs), env, R.s, R.v)

evalBlock(e, env, s) ==
    LET blockEnv == NewId(s.fr)
    IN  evalSeq(e.exprs, blockEnv, [s EXCEPT !.fr = EnvExtend(@, env)], makeUnit)

evalListExpr(e, env, s) ==
    LET A == evalArgs(e.elements, env, s, <<>>)
    IN  IF ~A.ok THEN A ELSE Ok(makeList(A.v), A.s)

evalTupleExpr(e, env, s) ==
    LET A == evalArgs(e.elements, env, s, <<>>)
    IN  IF ~A.ok THEN A ELSE Ok(makeTuple(A.v), A.s)

\* `for (name, expr) in record.fields: rec.fields[name] = eval(expr, env)`
evalRecordFields(fields, env, s, rec) ==
    IF fields = <<>> THEN Ok(makeRecord(rec), s)
    ELSE LET R == eval(Head(fields)[2], env, s)
         IN  IF ~R.ok THEN R
             ELSE evalRecordFields(Tail(fields), env, R.s,
                                   MapPut(rec, Head(fields)[1], R.v))

evalRecordExpr(e, env, s) == evalRecordFields(e.fields, env, s, EmptyMap)

\* `for (keyExpr, valueExpr) in map.entries: m.set(eval(key), eval(value))`
evalMapEntries(entries, env, s, m) ==
    IF entries = <<>> THEN Ok(makeMap(m), s)
    ELSE LET K == eval(Head(entries)[1], env, s)
             V == eval(Head(entries)[2], env, K.s)
         IN  IF ~K.ok THEN K
             ELSE IF ~V.ok THEN V
             ELSE evalMapEntries(Tail(entries), env, V.s,
                                 MapValueSet(m, K.v, V.v))

evalMapExpr(e, env, s) == evalMapEntries(e.entries, env, s, <<>>)

\* matchPattern on the frame heap fr: [m, fr], m the boolean it returns and fr
\* the heap with the bindings it defined in env, also when m is FALSE.
matchPattern(pattern, value, env, fr) ==
    CASE pattern.k = "WildcardPattern" -> [m |-> TRUE, fr |-> fr]
      [] pattern.k = "VarPattern" ->
            [m |-> TRUE,
             fr |-> EnvDefine(fr, env, pattern.name, value, FALSE).fr]
      [] pattern.k = "LiteralPattern" ->
            [m |-> value.t = pattern.value.t /\ value.v = pattern.value.v,
             fr |-> fr]
      [] pattern.k = "ConstructorPattern" ->
            IF value.t # "adt" THEN [m |-> FALSE, fr |-> fr]
            ELSE IF value.ctorName # pattern.ctorName
            THEN [m |-> FALSE, fr |-> fr]
            ELSE IF Len(value.fields) # Len(pattern.args)
            THEN [m |-> FALSE, fr |-> fr]
            ELSE matchPatterns(pattern.args, value.fields, env, fr)

\* `for i: if (!matchPattern(p.args[i], fields[i], env)) return false;`
matchPatterns(patterns, values, env, fr) ==
    IF patterns = <<>> THEN [m |-> TRUE, fr |-> fr]
    ELSE LET M == matchPattern(Head(patterns), Head(values), env, fr)
         IN  IF ~M.m THEN M
             ELSE matchPatterns(Tail(patterns), Tail(values), env, M.fr)

\* history: a call of matchPattern on env, what it returned and the names
\* that env binds after it.
MatchCall(env, M) ==
    [env |-> env, m |-> M.m, bound |-> DOMAIN M.fr[env].bindings_]

\* An arm loop that takes the first arm whose pattern matches, whatever its
\* guard says.
evalArmsIgnoringGuard(arms, scrutinee, env, s) ==
    IF arms = <<>> THEN Throw("no-matching-pattern", s)
    ELSE LET arm == Head(arms)
             matchEnv == NewId(s.fr)
             M == matchPattern(arm.pattern, scrutinee, matchEnv,
                               EnvExtend(s.fr, env))
             s1 == [s EXCEPT !.fr = M.fr,
                             !.matches = Append(@, MatchCall(matchEnv, M))]
         IN  IF ~M.m THEN evalArmsIgnoringGuard(Tail(arms), scrutinee, env, s1)
             ELSE eval(arm.body, matchEnv, s1)

\* An arm loop that matches every arm's pattern in the frame of the match
\* itself.
evalArmsInEnv(arms, scrutinee, env, s) ==
    IF arms = <<>> THEN Throw("no-matching-pattern", s)
    ELSE LET arm == Head(arms)
             WithM(M) ==
                 LET s1 == [s EXCEPT !.fr = M.fr,
                                     !.matches = Append(@, MatchCall(env, M))]
                 IN  IF ~M.m THEN evalArmsInEnv(Tail(arms), scrutinee, env, s1)
                     ELSE IF arm.guard.k # "nullptr"
                     THEN LET WithG(G) ==
                                  IF ~G.ok THEN G
                                  ELSE IF G.v.t # "bool"
                                  THEN Throw("bad-variant-access", G.s)
                                  ELSE IF ~G.v.v
                                  THEN evalArmsInEnv(Tail(arms), scrutinee, env, G.s)
                                  ELSE eval(arm.body, env, G.s)
                          IN  WithG(eval(arm.guard, env, s1))
                     ELSE eval(arm.body, env, s1)
         IN  WithM(matchPattern(arm.pattern, scrutinee, env, s.fr))

\* `for arm in match.arms` of evalMatchExpr.
evalArms(arms, scrutinee, env, s) ==
    IF arms = <<>> THEN Throw("no-matching-pattern", s)
    ELSE LET arm == Head(arms)
             matchEnv == NewId(s.fr)
             M == matchPattern(arm.pattern, scrutinee, matchEnv,
                               EnvExtend(s.fr, env))
             s1 == [s EXCEPT !.fr = M.fr,
                             !.matches = Append(@, MatchCall(matchEnv, M))]
         IN  IF ~M.m THEN evalArms(Tail(arms), scrutinee, env, s1)
             ELSE IF arm.guard.k # "nullptr"
             THEN LET G == eval(arm.guard, matchEnv, s1)
                  IN  IF ~G.ok THEN G
                      ELSE IF G.v.t # "bool"
                      THEN Throw("bad-variant-access", G.s)
                      ELSE IF ~G.v.v
                      THEN evalArms(Tail(arms), scrutinee, env, G.s)
                      ELSE eval(arm.body, matchEnv, G.s)
             ELSE eval(arm.body, matchEnv, s1)

evalMatchExpr(e, env, s) ==
    LET S == eval(e.scrutinee, env, s)
    IN  IF ~S.ok THEN S ELSE evalArms(e.arms, S.v, env, S.s)

eval(e, env, s) ==
    CASE e.k = "IntLiteral" -> Ok(makeInt(e.value), s)
      [] e.k = "BoolLiteral" -> Ok(makeBool(e.value), s)
      [] e.k = "Identifier" -> evalIdentifier(e, env, s)
      [] e.k = "BinaryOp" -> evalBinaryOp(e, env, s)
      [] e.k = "LetExpr" -> evalLetExpr(e, env, s)
      [] e.k = "AssignExpr" -> evalAssignExpr(e, env, s)
      [] e.k = "FnDef" -> evalFnDef(e, env, s)
      [] e.k = "Lambda" -> evalLambda(e, env, s)
      [] e.k = "Call" -> evalCall(e, env, s)
      [] e.k = "IfExpr" -> evalIfExpr(e, env, s)
      [] e.k = "Block" -> evalBlock(e, env, s)
      [] e.k = "WhileExpr" -> evalWhileExpr(e, env, s)
      [] e.k = "ForExpr" -> evalForExpr(e, env, s)
      [] e.k = "MatchExpr" -> evalMatchExpr(e, env, s)
      [] e.k = "ListExpr" -> evalListExpr(e, env, s)
      [] e.k = "TupleExpr" -> evalTupleExpr(e, env, s)
      [] e.k = "RecordExpr" -> evalRecordExpr(e, env, s)
      [] e.k = "MapExpr" -> evalMapExpr(e, env, s)

(***************************************************************************)
(* Declaration evaluation (evaluator.cpp).                                 *)
(***************************************************************************)
RECURSIVE DefineConstructors(_, _, _, _)
DefineConstructors(ctors, typeName, env, s) ==
    IF ctors = <<>> THEN Ok(makeUnit, s)
    ELSE LET ctor == Head(ctors)
             val == IF ctor.nfields = 0
                    THEN makeADT(typeName, ctor.name, <<>>)
                    ELSE makeBuiltin(ctor.name, ctor.nfields,
                                     BuiltinCtor(typeName, ctor.name))
             D == EnvDefine(s.fr, env, ctor.name, val, FALSE)
         IN  IF ~D.ok THEN Throw(D.err, s)
             ELSE DefineConstructors(Tail(ctors), typeName, env,
                                     [s EXCEPT !.fr = D.fr])

evalTypeDef(def, env, s) ==
    DefineConstructors(def.constructors, def.name, env,
                       [s EXCEPT !.fr = EnvDefineType(@, env, def.name)])

evalModuleDef(mod, env, s) ==
    LET modEnv == NewId(s.fr)
        R == evalSeq(mod.body, modEnv, [s EXCEPT !.fr = EnvExtend(@, env)],
                     makeUnit)
    IN  IF ~R.ok THEN R
        ELSE Ok(makeUnit,
                [R.s EXCEPT !.fr = EnvDefineModule(@, env, mod.name, modEnv)])

(***************************************************************************)
(* The file system seen by resolveModulePath and loadModule: which         *)
(* <dir>/<name>.stsn exist, whether they can be read, whether the lexer    *)
(* and the parser accept them, and the Program the parser returns.         *)
(***************************************************************************)
print(e) == Call(Identifier("print"), <<e>>)

ModuleNames == {"A", "B", "C", "D", "E", "F", "G", "H", "I", "J", "K", "L"}

File(dir, readable, lexes, parses, program) ==
    [dir |-> dir, readable |-> readable, lexes |-> lexes, parses |-> parses,
     program |-> program]

Files ==
    [n \in ModuleNames \ {"H"} |->
        CASE n = "A" -> File("", TRUE, TRUE, TRUE,
                 <<ExprDecl(print(IntLiteral(1))), ImportDecl("B"),
                   ExprDecl(LetExpr("a", IntLiteral(1), FALSE))>>)
          [] n = "B" -> File("", TRUE, TRUE, TRUE,
                 <<ExprDecl(print(IntLiteral(2))), ImportDecl("A")>>)
          [] n = "C" -> File("stdlib", TRUE, TRUE, TRUE,
                 <<ExprDecl(LetExpr("c", IntLiteral(3), TRUE)),
                   ExprDecl(print(IntLiteral(3)))>>)
          [] n = "D" -> File("", TRUE, TRUE, TRUE,
                 <<ExprDecl(print(IntLiteral(4))),
                   ExprDecl(Identifier("undefined"))>>)
          [] n = "E" -> File("", TRUE, FALSE, FALSE, <<>>)
          [] n = "F" -> File("stdlib", TRUE, TRUE, FALSE, <<>>)
          [] n = "G" -> File("", FALSE, FALSE, FALSE, <<>>)
          [] n = "I" -> File("stdlib", TRUE, TRUE, TRUE,
                 <<ImportDecl("C"), ExprDecl(Identifier("undefined"))>>)
          [] n = "J" -> File("stdlib", TRUE, TRUE, TRUE,
                 <<ImportDecl("C"), ExprDecl(LetExpr("j", IntLiteral(5), FALSE))>>)
          [] n = "K" -> File("", TRUE, TRUE, TRUE,
                 <<ExprDecl(print(IntLiteral(6))), ImportDecl("K")>>)
          [] n = "L" -> File("", TRUE, TRUE, TRUE,
                 <<ImportDecl("E"), ExprDecl(print(IntLiteral(7)))>>)]

\* fs::exists(dir / (moduleName + ".stsn"))
Exists(dir, moduleName) ==
    moduleName \in DOMAIN Files /\ Files[moduleName].dir = dir

ProgramOf(moduleName) ==
    IF moduleName \in DOMAIN Files THEN Files[moduleName].program ELSE <<>>

NoPath == "<none>"
\* The directory of the first existing candidate, or NoPath for "".
resolveModulePath(moduleName, basePath) ==
    IF basePath # "" /\ Exists(basePath, moduleName) THEN basePath
    ELSE IF Exists("", moduleName) THEN ""
    ELSE IF Exists("stdlib", moduleName) THEN "stdlib"
    ELSE NoPath

(***************************************************************************)
(* The evaluator as a state machine.  One step evaluates one declaration   *)
(* of the Program being evaluated (the REPL input, or the module file of   *)
(* the innermost loadModule activation); an exception in flight unwinds    *)
(* one loadModule activation per step, until the REPL catches it.          *)
(***************************************************************************)
GlobalEnv ==
    [Environment(0) EXCEPT
        !.bindings_ = MapPut(EmptyMap, "print", makeBuiltin("print", 1, BuiltinPrint))]

Init ==
    /\ frames = <<GlobalEnv>>
    /\ env_ = 1
    /\ basePath_ = ""
    /\ moduleCache_ = EmptyMap
    /\ loadingModules_ = {}
    /\ stack = <<>>
    /\ mode = "idle"
    /\ prog = <<>>
    /\ result = makeUnit
    /\ lastResult = makeUnit
    /\ lastErr = ""
    /\ thrownIn = {}
    /\ out = <<>>
    /\ declRuns = [n \in ModuleNames |-> [i \in 1..Len(ProgramOf(n)) |-> 0]]
    /\ lastOp = [op |-> "init"]
    /\ nSteps = 0
    /\ mapEntries = <<>>
    /\ insertOrder = <<>>
    /\ recSource = <<>>
    /\ recValue = NoValue
    /\ recShown = ""
    /\ source_ = <<>>
    /\ pos_ = 0
    /\ tokens = <<>>
    /\ lexState = "none"
    /\ tokens_ = <<>>
    /\ parseInput = [operands |-> <<>>, ops |-> <<>>]
    /\ parsed = [t |-> "none"]
    /\ buffer = <<>>
    /\ openBraces = 0
    /\ openBrackets = 0
    /\ openParens = 0
    /\ pending = <<>>
    /\ prompt = ">> "
    /\ shown = <<>>
    /\ attempts = <<>>
    /\ inferred = [t |-> "none"]
    /\ nextTypeVar_ = 0
    /\ generalized = <<>>
    /\ typeHeap = <<>>

Top == stack[Len(stack)]
InProgress(stk) == {stk[i].name : i \in 1..Len(stk)}
Pop == SubSeq(stack, 1, Len(stack) - 1)

\* A cache that never hits.
IsCachedNever(moduleName) == FALSE

\* moduleCache_.find(moduleName) != moduleCache_.end()
IsCached(moduleName) == moduleName \in DOMAIN moduleCache_

\* A cycle check that returns to the import site instead of throwing.
CyclicImportIgnored(moduleName, stk) ==
    /\ stack' = stk
    /\ lastOp' = [op |-> "loadModule", name |-> moduleName,
                  exit |-> "ignored", cacheAtEntry |-> moduleCache_]
    /\ UNCHANGED <<frames, env_, basePath_, moduleCache_, loadingModules_,
                   mode, lastErr, thrownIn>>

\* throw RuntimeError("Cyclic import detected: ...")
CyclicImport(moduleName, stk) ==
    /\ mode' = "throwing"
    /\ lastErr' = "cyclic-import"
    /\ stack' = stk
    /\ thrownIn' = InProgress(stk)
    /\ lastOp' = [op |-> "loadModule", name |-> moduleName,
                  exit |-> "cyclic-import", cacheAtEntry |-> moduleCache_]
    /\ UNCHANGED <<frames, env_, basePath_, moduleCache_, loadingModules_>>

\* Evaluator::loadModule up to the point where the module's declarations
\* start to be evaluated; stk is the call stack of the caller.
loadModule(moduleName, stk) ==
    LET path == resolveModulePath(moduleName, basePath_)
        file == Files[moduleName]
        moduleEnv == NewId(frames)
    IN
    IF IsCached(moduleName)
    THEN \* cache hit: evalImportDecl registers the cached environment
         /\ frames' = EnvDefineModule(frames, env_, moduleName,
                                      moduleCache_[moduleName])
         /\ stack' = stk
         /\ lastOp' = [op |-> "loadModule", name |-> moduleName,
                       exit |-> "cached", cacheAtEntry |-> moduleCache_]
         /\ UNCHANGED <<env_, basePath_, moduleCache_, loadingModules_, mode,
                        lastErr, thrownIn>>
    ELSE IF moduleName \in loadingModules_
    THEN CyclicImport(moduleName, stk)
    ELSE IF path = NoPath
    THEN /\ mode' = "throwing"
         /\ lastErr' = "cannot-find-module"
         /\ stack' = stk
         /\ thrownIn' = InProgress(stk)
         /\ lastOp' = [op |-> "loadModule", name |-> moduleName,
                       exit |-> "cannot-find-module", cacheAtEntry |-> moduleCache_]
         /\ UNCHANGED <<frames, env_, basePath_, moduleCache_, loadingModules_>>
    ELSE IF ~file.readable
    THEN \* insert, then erase before the throw
         /\ mode' = "throwing"
         /\ lastErr' = "cannot-read-module"
         /\ stack' = stk
         /\ loadingModules_' = (loadingModules_ \cup {moduleName}) \ {moduleName}
         /\ thrownIn' = InProgress(stk)
         /\ lastOp' = [op |-> "loadModule", name |-> moduleName,
                       exit |-> "cannot-read-module", cacheAtEntry |-> moduleCache_]
         /\ UNCHANGED <<frames, env_, basePath_, moduleCache_>>
    ELSE IF ~file.lexes \/ ~file.parses
    THEN \* tokenize() / parse() throw outside the try block
         /\ mode' = "throwing"
         /\ lastErr' = IF ~file.lexes THEN "lexer-error" ELSE "parse-error"
         /\ stack' = stk
         /\ loadingModules_' = loadingModules_ \cup {moduleName}
         /\ thrownIn' = InProgress(stk)
         /\ lastOp' = [op |-> "loadModule", name |-> moduleName,
                       exit |-> IF ~file.lexes THEN "lexer-error"
                                ELSE "parse-error",
                       cacheAtEntry |-> moduleCache_]
         /\ UNCHANGED <<frames, env_, basePath_, moduleCache_>>
    ELSE /\ loadingModules_' = loadingModules_ \cup {moduleName}
         /\ frames' = EnvExtend(frames, env_)
         /\ basePath_' = path
         /\ env_' = moduleEnv
         /\ stack' = Append(stk,
                [name |-> moduleName, program |-> file.program, pc |-> 1,
                 moduleEnv |-> moduleEnv, oldBasePath |-> basePath_,
                 oldEnv |-> env_, cacheAtEntry |-> moduleCache_])
         /\ lastOp' = [op |-> "loadModule", name |-> moduleName,
                       exit |-> "evaluating", cacheAtEntry |-> moduleCache_]
         /\ UNCHANGED <<moduleCache_, mode, lastErr, thrownIn>>

\* An iteration that forgets the last expression's value at a declaration
\* that is no expression.
NextResultUnit(res, d, v) == IF d.k = "ExprPtr" THEN v ELSE makeUnit

\* `if (decl.is<ExprPtr>()) result = eval(...); else evalDecl(decl);`
NextResult(res, d, v) == IF d.k = "ExprPtr" THEN v ELSE res

\* One iteration of `for decl in program.declarations` (in eval(Program)
\* when top, in loadModule otherwise): eval(expr) or evalDecl(decl).
EvalOneDecl(d, top, stk) ==
    IF d.k = "ImportDecl"
    THEN /\ loadModule(d.moduleName, stk)
         /\ UNCHANGED <<out, result>>
    ELSE LET s == [fr |-> frames, out |-> out, sets |-> <<>>,
                  matches |-> <<>>]
             Effects(R) ==
                 /\ frames' = R.s.fr
                 /\ out' = R.s.out
                 /\ stack' = stk
                 /\ mode' = IF R.ok THEN mode ELSE "throwing"
                 /\ lastErr' = IF R.ok THEN lastErr ELSE R.err
                 /\ thrownIn' = IF R.ok THEN thrownIn ELSE InProgress(stk)
                 /\ result' = IF R.ok /\ top THEN NextResult(result, d, R.v)
                              ELSE result
                 /\ lastOp' = [op |-> "evalDecl", d |-> d, env |-> env_,
                               ok |-> R.ok, v |-> R.v, sets |-> R.s.sets,
                               matches |-> R.s.matches]
                 /\ UNCHANGED <<env_, basePath_, moduleCache_, loadingModules_>>
         IN  Effects(CASE d.k = "ExprPtr" -> eval(d.e, env_, s)
                       [] d.k = "TypeDef" -> evalTypeDef(d, env_, s)
                       [] d.k = "ModuleDef" -> evalModuleDef(d, env_, s))

\* The REPL hands a new Program to Evaluator::eval; max bounds the number
\* of declarations that the REPL reads in one behaviour.
ReplBegin(max) ==
    /\ UNCHANGED otherVars
    /\ mode = "idle"
    /\ nSteps < max
    /\ mode' = "running"
    /\ prog' = <<>>
    /\ result' = makeUnit
    /\ lastOp' = [op |-> "begin"]
    /\ UNCHANGED <<frames, env_, basePath_, moduleCache_, loadingModules_,
                   stack, lastResult, lastErr, thrownIn, out, declRuns, nSteps>>

\* eval(Program) evaluates its next declaration, d.
EvalDecl(d, max) ==
    /\ UNCHANGED otherVars
    /\ mode = "running"
    /\ stack = <<>>
    /\ nSteps < max
    /\ nSteps' = nSteps + 1
    /\ EvalOneDecl(d, TRUE, stack)
    /\ prog' = Append(prog,
                      [d |-> d,
                       v |-> IF d.k = "ExprPtr" /\ lastOp'.ok THEN lastOp'.v
                             ELSE NoValue])
    /\ UNCHANGED <<lastResult, declRuns>>

\* eval(Program) returns `result` to the REPL.
ReplEnd ==
    /\ UNCHANGED otherVars
    /\ mode = "running"
    /\ stack = <<>>
    /\ mode' = "idle"
    /\ lastResult' = result
    /\ lastOp' = [op |-> "return", prog |-> prog]
    /\ UNCHANGED <<frames, env_, basePath_, moduleCache_, loadingModules_,
                   stack, prog, result, lastErr, thrownIn, out, declRuns,
                   nSteps>>

\* The REPL's catch clauses: print the error, clear the buffer, prompt.
ReplCatch ==
    /\ UNCHANGED otherVars
    /\ mode = "throwing"
    /\ stack = <<>>
    /\ mode' = "idle"
    /\ lastOp' = [op |-> "catch", err |-> lastErr]
    /\ UNCHANGED <<frames, env_, basePath_, moduleCache_, loadingModules_,
                   stack, prog, result, lastResult, lastErr, thrownIn, out,
                   declRuns, nSteps>>

\* The innermost loadModule evaluates the next declaration of its file.
LoadEvalDecl ==
    /\ UNCHANGED otherVars
    /\ mode = "running"
    /\ stack # <<>>
    /\ Top.pc <= Len(Top.program)
    /\ declRuns' = [declRuns EXCEPT ![Top.name][Top.pc] = @ + 1]
    /\ EvalOneDecl(Top.program[Top.pc], FALSE,
                   [stack EXCEPT ![Len(stack)].pc = @ + 1])
    /\ UNCHANGED <<prog, lastResult, nSteps>>

\* The innermost loadModule has evaluated every declaration: it restores
\* the state, caches the module and returns to evalImportDecl, which
\* registers the module in the (restored) current environment.
LoadReturn ==
    /\ UNCHANGED otherVars
    /\ mode = "running"
    /\ stack # <<>>
    /\ Top.pc > Len(Top.program)
    /\ basePath_' = Top.oldBasePath
    /\ env_' = Top.oldEnv
    /\ loadingModules_' = loadingModules_ \ {Top.name}
    /\ moduleCache_' = MapPut(moduleCache_, Top.name, Top.moduleEnv)
    /\ frames' = EnvDefineModule(frames, Top.oldEnv, Top.name, Top.moduleEnv)
    /\ stack' = Pop
    /\ lastOp' = [op |-> "loadModule", name |-> Top.name, exit |-> "loaded",
                  cacheAtEntry |-> Top.cacheAtEntry]
    /\ UNCHANGED <<mode, prog, result, lastResult, lastErr, thrownIn, out,
                   declRuns, nSteps>>

\* A catch handler that also caches the partially evaluated module.
LoadUnwindCaching ==
    /\ UNCHANGED otherVars
    /\ mode = "throwing"
    /\ stack # <<>>
    /\ basePath_' = Top.oldBasePath
    /\ env_' = Top.oldEnv
    /\ loadingModules_' = loadingModules_ \ {Top.name}
    /\ moduleCache_' = MapPut(moduleCache_, Top.name, Top.moduleEnv)
    /\ stack' = Pop
    /\ lastOp' = [op |-> "loadModule", name |-> Top.name, exit |-> "rethrow",
                  cacheAtEntry |-> Top.cacheAtEntry]
    /\ UNCHANGED <<frames, mode, prog, result, lastResult,
                   lastErr, thrownIn, out, declRuns, nSteps>>

\* A catch handler that rethrows without restoring basePath_ and env_.
LoadUnwindNoRestore ==
    /\ UNCHANGED otherVars
    /\ mode = "throwing"
    /\ stack # <<>>
    /\ loadingModules_' = loadingModules_ \ {Top.name}
    /\ stack' = Pop
    /\ lastOp' = [op |-> "loadModule", name |-> Top.name, exit |-> "rethrow",
                  cacheAtEntry |-> Top.cacheAtEntry]
    /\ UNCHANGED <<frames, basePath_, env_, moduleCache_, mode, prog, result,
                   lastResult, lastErr, thrownIn, out, declRuns, nSteps>>

\* catch (...) of the innermost loadModule: restore, erase, rethrow.
LoadUnwind ==
    /\ UNCHANGED otherVars
    /\ mode = "throwing"
    /\ stack # <<>>
    /\ basePath_' = Top.oldBasePath
    /\ env_' = Top.oldEnv
    /\ loadingModules_' = loadingModules_ \ {Top.name}
    /\ stack' = Pop
    /\ lastOp' = [op |-> "loadModule", name |-> Top.name, exit |-> "rethrow",
                  cacheAtEntry |-> Top.cacheAtEntry]
    /\ UNCHANGED <<frames, moduleCache_, mode, prog, result, lastResult,
                   lastErr, thrownIn, out, declRuns, nSteps>>

(***************************************************************************)
(* Specification of the module loader: the REPL inputs are imports of the  *)
(* module files above, and a top-level expression.                         *)
(***************************************************************************)
ImportDecls ==
    {ImportDecl(n) : n \in ModuleNames} \cup {ExprDecl(IntLiteral(9))}

Next ==
    \/ ReplBegin(MaxDecls)
    \/ \E d \in ImportDecls : EvalDecl(d, MaxDecls)
    \/ ReplEnd
    \/ ReplCatch
    \/ LoadEvalDecl
    \/ LoadReturn
    \/ LoadUnwind

Spec == Init /\ [][Next]_vars

(***************************************************************************)
(* Specification of bindings: let / const, assignment and closures.       *)
(***************************************************************************)
BindDecls ==
    {ExprDecl(e) : e \in {
        LetExpr("x", IntLiteral(1), TRUE),
        LetExpr("x", IntLiteral(2), FALSE),
        LetExpr("x", IntLiteral(3), TRUE),
        AssignExpr("x", IntLiteral(5)),
        Block(<<AssignExpr("x", IntLiteral(6))>>),
        AssignExpr("x", LetExpr("x", IntLiteral(7), TRUE)),
        FnDef("getx", <<>>, Identifier("x")),
        Call(Identifier("getx"), <<>>),
        Block(<<LetExpr("x", IntLiteral(8), FALSE),
                Call(Identifier("getx"), <<>>)>>),
        FnDef("mk", <<"x">>,
              Lambda(<<"y">>, BinaryOp("ADD", Identifier("x"), Identifier("y")))),
        Call(Call(Identifier("mk"), <<IntLiteral(3)>>), <<IntLiteral(10)>>)}}

NextBind ==
    \/ ReplBegin(MaxBindDecls)
    \/ \E d \in BindDecls : EvalDecl(d, MaxBindDecls)
    \/ ReplEnd
    \/ ReplCatch

SpecBind == Init /\ [][NextBind]_vars

(***************************************************************************)
(* Specification of programs: expression, type and module declarations,   *)
(* imports of a module file, and calls of built-ins.                       *)
(***************************************************************************)
OptionDef ==
    TypeDef("Option", <<TypeConstructor("None", 0), TypeConstructor("Some", 1)>>)

ProgDecls ==
    {ExprDecl(IntLiteral(5)),
     ExprDecl(Identifier("None")),
     OptionDef,
     ModuleDef("M", <<LetExpr("m", IntLiteral(1), FALSE)>>),
     ExprDecl(Call(Identifier("Some"), <<>>)),
     ExprDecl(Call(Identifier("Some"), <<IntLiteral(1)>>)),
     ExprDecl(Call(Identifier("Some"), <<IntLiteral(1), IntLiteral(2)>>)),
     ExprDecl(print(IntLiteral(1))),
     ExprDecl(Call(Identifier("print"), <<IntLiteral(1), IntLiteral(2)>>)),
     ImportDecl("C")}

NextProg ==
    \/ ReplBegin(MaxProgDecls)
    \/ \E d \in ProgDecls : EvalDecl(d, MaxProgDecls)
    \/ ReplEnd
    \/ ReplCatch
    \/ LoadEvalDecl
    \/ LoadReturn

SpecProg == Init /\ [][NextProg]_vars

(***************************************************************************)
(* Specification of evaluation order: calls and && / || whose operands    *)
(* print a tag before they yield their value.                              *)
(***************************************************************************)
Traced(tag, e) == Block(<<print(IntLiteral(tag)), e>>)

PairDef == TypeDef("Pair", <<TypeConstructor("MkPair", 2)>>)

TracedLambda ==
    Lambda(<<"a", "b">>,
           Traced(3, BinaryOp("ADD", Identifier("a"), Identifier("b"))))

OrderDecls ==
    {PairDef}
    \cup {ExprDecl(Call(Traced(0, callee),
                        <<Traced(t[1], IntLiteral(10)), Traced(t[2], IntLiteral(20))>>)) :
            callee \in {TracedLambda, Identifier("MkPair")},
            t \in {<<1, 2>>, <<2, 1>>}}
    \cup {ExprDecl(BinaryOp(op, Traced(1, L), R)) :
            op \in {"AND", "OR"},
            L \in {BoolLiteral(TRUE), BoolLiteral(FALSE), IntLiteral(5)},
            R \in {Traced(2, BoolLiteral(TRUE)), Identifier("undefined")}}

NextOrder ==
    \/ ReplBegin(MaxOrderDecls)
    \/ \E d \in OrderDecls : EvalDecl(d, MaxOrderDecls)
    \/ ReplEnd
    \/ ReplCatch

SpecOrder == Init /\ [][NextOrder]_vars

(***************************************************************************)
(* Properties of the module loader.                                        *)
(***************************************************************************)
\* The declaration that a declaration-evaluating step evaluates.
IsDeclStep ==
    \/ mode = "running" /\ stack = <<>> /\ nSteps' = nSteps + 1
    \/ mode = "running" /\ stack # <<>> /\ Top.pc <= Len(Top.program)
ThisDecl ==
    IF stack = <<>> THEN prog'[Len(prog')].d ELSE Top.program[Top.pc]

ErrorExits ==
    {"cyclic-import", "cannot-find-module", "cannot-read-module",
     "lexer-error", "parse-error", "rethrow"}

\* C1: an import of a module whose load is in progress throws cyclic-import;
\* an exception in flight leaves every loadModule on the stack through its
\* rethrow, one after the other; and when the REPL catches a cyclic-import
\* error, no load is left in progress and none of the modules that were in
\* progress at the throw is in moduleCache_.
C1_CyclicImport ==
    /\ [][(IsDeclStep /\ stack # <<>> /\ ThisDecl.k = "ImportDecl"
              /\ ThisDecl.moduleName \in InProgress(stack))
            => (mode' = "throwing" /\ lastErr' = "cyclic-import"
                /\ thrownIn' = InProgress(stack))]_vars
    /\ [][(mode = "throwing" /\ stack # <<>>)
            => (mode' = "throwing" /\ lastErr' = lastErr /\ stack' = Pop)]_vars
    /\ []((lastOp.op = "catch" /\ lastOp.err = "cyclic-import")
            => (stack = <<>> /\ \A m \in thrownIn : m \notin DOMAIN moduleCache_))

\* A and B, which import each other, were both in progress when the
\* cyclic import was detected, and the REPL has caught the error.
C1_Witness ==
    /\ lastOp.op = "catch"
    /\ lastOp.err = "cyclic-import"
    /\ thrownIn = {"A", "B"}

C3_CacheUnchanged ==
    (lastOp.op = "loadModule" /\ lastOp.exit \in ErrorExits)
        => moduleCache_ = lastOp.cacheAtEntry

\* C3: after loadModule exits with an error, its module name is not in
\* moduleCache_ and every entry that was cached when it was called is still
\* cached with the same environment.
C3_FailedLoadNotCached ==
    (lastOp.op = "loadModule" /\ lastOp.exit \in ErrorExits)
        => /\ lastOp.name \notin DOMAIN moduleCache_
           /\ \A m \in DOMAIN lastOp.cacheAtEntry :
                /\ m \in DOMAIN moduleCache_
                /\ moduleCache_[m] = lastOp.cacheAtEntry[m]

\* The load of I failed in its body after its nested import of C succeeded.
C3_Witness ==
    /\ lastOp.op = "loadModule"
    /\ lastOp.exit = "rethrow"
    /\ lastOp.name = "I"
    /\ "C" \in DOMAIN moduleCache_
    /\ "C" \notin DOMAIN lastOp.cacheAtEntry

(***************************************************************************)
(* Properties of bindings.                                                 *)
(***************************************************************************)
\* Whether the first frame on the chain from e that binds name marks it
\* const: the test that Environment::set applies where it finds the name.
RECURSIVE NearestConst(_, _, _)
NearestConst(fr, e, name) ==
    IF name \in DOMAIN fr[e].bindings_ THEN name \in fr[e].constNames_
    ELSE IF fr[e].parent_ # 0 THEN NearestConst(fr, fr[e].parent_, name)
    ELSE FALSE

C5_DefineConstGuard ==
    [][(IsDeclStep /\ ThisDecl.k = "ExprPtr" /\ ThisDecl.e.k = "LetExpr")
         => LET e == ThisDecl.e
                cur == frames[env_]
            IN  IF e.name \in cur.constNames_
                THEN /\ mode' = "throwing"
                     /\ lastErr' = "redeclare-const"
                     /\ frames' = frames
                ELSE /\ mode' = "running"
                     /\ frames' = [frames EXCEPT ![env_] =
                            [cur EXCEPT
                               !.bindings_ =
                                   MapPut(@, e.name, makeInt(e.value.value)),
                               !.constNames_ =
                                   IF e.isConst THEN @ \cup {e.name} ELSE @]]]_vars

\* The closure that getx names at top level, and what a lookup of name
\* through the chain it captured yields.
GetxBound == EnvGet(frames, env_, "getx").t = "closure"
Getx == EnvGet(frames, env_, "getx")
Sees(fr, closure, name) == EnvGet(fr, closure.env, name)

\* A call of a closure: the frames it allocates and the value it yields.
ClosureCallStep ==
    LET e == ThisDecl.e
        n == Len(frames)
    IN  /\ (e.k = "Call" /\ e.callee.k = "Identifier" /\ GetxBound)
            => /\ frames' = Append(frames, Environment(Getx.env))
               /\ IF EnvHas(frames, Getx.env, "x")
                  THEN mode' = "running" /\ result' = Sees(frames, Getx, "x")
                  ELSE mode' = "throwing" /\ lastErr' = "undefined-variable"
        /\ (e.k = "Block" /\ Len(e.exprs) = 2 /\ GetxBound)
            => /\ Len(frames') = n + 2
               /\ SubSeq(frames', 1, n) = frames
               /\ frames'[n + 1].parent_ = env_
               /\ frames'[n + 1].bindings_ =
                      MapPut(EmptyMap, "x", makeInt(e.exprs[1].value.value))
               /\ frames'[n + 2] = Environment(Getx.env)
               /\ Getx.env # n + 1
               /\ IF EnvHas(frames, Getx.env, "x")
                  THEN mode' = "running" /\ result' = Sees(frames, Getx, "x")
                  ELSE mode' = "throwing" /\ lastErr' = "undefined-variable"
        /\ (e.k = "Call" /\ e.callee.k = "Call"
              /\ EnvGet(frames, env_, "mk").t = "closure")
            => /\ Len(frames') = n + 2
               /\ SubSeq(frames', 1, n) = frames
               /\ frames'[n + 1] =
                      [Environment(EnvGet(frames, env_, "mk").env) EXCEPT
                          !.bindings_ = MapPut(EmptyMap, "x", makeInt(3))]
               /\ frames'[n + 2] =
                      [Environment(n + 1) EXCEPT
                          !.bindings_ = MapPut(EmptyMap, "y", makeInt(10))]
               /\ mode' = "running"
               /\ result' = makeInt(13)

\* An assignment to x that succeeds is what the closure sees from then on.
AssignObservedStep ==
    LET e == ThisDecl.e
    IN  (e.k = "AssignExpr" /\ e.value.k = "IntLiteral" /\ GetxBound
           /\ mode' = "running")
            => Sees(frames', Getx, "x") = makeInt(e.value.value)

\* A top-level `let` of x leaves what the closure sees as it was.
LetInCallerFrameUnseen ==
    LET e == ThisDecl.e
    IN  (e.k = "LetExpr" /\ GetxBound)
            => Sees(frames', Getx, "x") = Sees(frames, Getx, "x")

\* A top-level `let` of x that succeeds executes in a frame on the chain
\* the closure captured: it rebinds x there and the closure sees the new
\* value; one that fails changes nothing.
LetOnChainSeen ==
    LET e == ThisDecl.e
    IN  (e.k = "LetExpr" /\ GetxBound)
            => IF mode' = "running"
               THEN Sees(frames', Getx, "x") = makeInt(e.value.value)
               ELSE Sees(frames', Getx, "x") = Sees(frames, Getx, "x")

\* C10 as stated: a closure call binds in a fresh frame under the closure's
\* definition-time environment, the body sees the captured chain as it is at
\* the call, a later assignment is observed, and a `let` of the same name in
\* the caller's frame or in a nested frame does not change what it sees.
C10_LexicalCapture ==
    [][(IsDeclStep /\ ThisDecl.k = "ExprPtr")
         => (ClosureCallStep /\ AssignObservedStep /\ LetInCallerFrameUnseen)]_vars

\* C10: a closure call binds in a fresh frame under the closure's
\* definition-time environment, the body sees the captured chain as it is at
\* the call, a later assignment is observed, a `let` of the same name in a
\* frame off the captured chain (the caller's block frame) is not seen, and a
\* `let` of the same name in a frame on the captured chain is seen.
C10_CapturedChain ==
    [][(IsDeclStep /\ ThisDecl.k = "ExprPtr")
         => (ClosureCallStep /\ AssignObservedStep /\ LetOnChainSeen)]_vars

\* x was bound to 2, getx was defined, x was assigned 5, and the call of
\* getx has just yielded 5.
C10_Witness ==
    /\ Len(prog) = 4
    /\ prog[1].d.e.k = "LetExpr" /\ ~prog[1].d.e.isConst
    /\ prog[2].d.e.k = "FnDef" /\ prog[2].d.e.name = "getx"
    /\ prog[3].d.e.k = "AssignExpr" /\ prog[3].d.e.value.k = "IntLiteral"
    /\ prog[4].d.e.k = "Call" /\ prog[4].d.e.callee.k = "Identifier"
    /\ lastOp.op = "evalDecl"
    /\ lastOp.ok
    /\ lastOp.v = makeInt(5)
    /\ result = makeInt(5)

RECURSIVE LastExprValue(_)
LastExprValue(p) ==
    IF p = <<>> THEN makeUnit
    ELSE IF p[Len(p)].d.k = "ExprPtr" THEN p[Len(p)].v
    ELSE LastExprValue(SubSeq(p, 1, Len(p) - 1))

C7_ArityChecked ==
    [][(IsDeclStep /\ ThisDecl.k = "ExprPtr" /\ ThisDecl.e.k = "Call"
          /\ EnvGet(frames, env_, ThisDecl.e.callee.name).t = "builtin"
          /\ EnvGet(frames, env_, ThisDecl.e.callee.name).arity >= 0
          /\ Len(ThisDecl.e.args)
                # EnvGet(frames, env_, ThisDecl.e.callee.name).arity)
         => (mode' = "throwing" /\ out' = out /\ result' = result)]_vars

(***************************************************************************)
(* Properties of evaluation order.                                         *)
(***************************************************************************)
\* The value that a traced expression prints, and the expression it wraps.
TraceTag(e) == makeInt(e.exprs[1].args[1].value)
TracedExpr(e) == e.exprs[2]

\* C8: a call prints the callee's tag, then the tags of its arguments from
\* left to right, each once, and only then the tag of the closure's body; a
\* built-in receives the argument values in that order; when the callee
\* fails, no argument is evaluated.
C8_CallOrder ==
    [][(IsDeclStep /\ ThisDecl.k = "ExprPtr" /\ ThisDecl.e.k = "Call")
         => LET e == ThisDecl.e
                callee == TracedExpr(e.callee)
                tags == <<TraceTag(e.callee), TraceTag(e.args[1]),
                          TraceTag(e.args[2])>>
            IN  IF callee.k = "Lambda"
                THEN /\ out' = out \o tags \o <<TraceTag(callee.body)>>
                     /\ mode' = "running"
                     /\ result' = makeInt(30)
                ELSE IF EnvHas(frames, env_, callee.name)
                THEN /\ out' = out \o tags
                     /\ mode' = "running"
                     /\ result' = makeADT("Pair", "MkPair",
                                          <<makeInt(10), makeInt(20)>>)
                ELSE /\ out' = out \o <<tags[1]>>
                     /\ mode' = "throwing"
                     /\ lastErr' = "undefined-variable"]_vars

\* A closure call whose arguments print 2 and 1 has printed 0, 2, 1 and then
\* the body's 3.
C8_Witness ==
    /\ lastOp.op = "evalDecl"
    /\ lastOp.ok
    /\ lastOp.v = makeInt(30)
    /\ Len(out) >= 4
    /\ SubSeq(out, Len(out) - 3, Len(out))
          = <<makeInt(0), makeInt(2), makeInt(1), makeInt(3)>>

\* C9: in L && R and L || R, L is evaluated first; R is evaluated exactly
\* when L is true (&&) or false (||), and then the result and the effects are
\* R's; when R is skipped the result is false (&&) or true (||) and neither
\* R's output nor R's error occurs; when L is no boolean the operator throws
\* and R is not evaluated.
C9_ShortCircuit ==
    [][(IsDeclStep /\ ThisDecl.k = "ExprPtr" /\ ThisDecl.e.k = "BinaryOp"
          /\ ThisDecl.e.op \in {"AND", "OR"})
         => LET e == ThisDecl.e
                L == TracedExpr(e.left)
                evalR == /\ L.k = "BoolLiteral"
                         /\ L.value = (e.op = "AND")
                lout == out \o <<TraceTag(e.left)>>
            IN  IF L.k # "BoolLiteral"
                THEN /\ out' = lout
                     /\ mode' = "throwing"
                     /\ lastErr' = "bad-variant-access"
                ELSE IF ~evalR
                THEN /\ out' = lout
                     /\ mode' = "running"
                     /\ result' = makeBool(e.op = "OR")
                ELSE IF e.right.k = "Identifier"
                THEN /\ out' = lout
                     /\ mode' = "throwing"
                     /\ lastErr' = "undefined-variable"
                ELSE /\ out' = lout \o <<TraceTag(e.right)>>
                     /\ mode' = "running"
                     /\ result' = makeBool(TRUE)]_vars

\* false && undefined has just yielded false without an error.
C9_Witness ==
    /\ lastOp.op = "evalDecl"
    /\ lastOp.d.k = "ExprPtr"
    /\ lastOp.d.e.k = "BinaryOp"
    /\ lastOp.d.e.op = "AND"
    /\ lastOp.d.e.right.k = "Identifier"
    /\ lastOp.ok
    /\ lastOp.v = makeBool(FALSE)
    /\ mode = "running"

(***************************************************************************)
(* Specification of match: the scrutinee prints 0, the guard of arm i      *)
(* prints 10 + i and its body prints 20 + i.                               *)
(***************************************************************************)
MatchArmShapes ==
    {[pattern |-> LiteralPattern(makeInt(1)), guard |-> NoExpr,
      body |-> IntLiteral(100)],
     [pattern |-> VarPattern("n"), guard |-> BoolLiteral(FALSE),
      body |-> Identifier("n")],
     [pattern |-> ConstructorPattern("Some", <<VarPattern("k")>>),
      guard |-> BoolLiteral(TRUE), body |-> Identifier("k")],
     [pattern |-> WildcardPattern, guard |-> NoExpr, body |-> IntLiteral(103)]}

\* Arm number i of a match, made from shape a.
TracedArm(a, i) ==
    MatchArm(a.pattern,
             IF a.guard.k = "nullptr" THEN NoExpr ELSE Traced(10 + i, a.guard),
             Traced(20 + i, a.body))

MatchDecls ==
    {OptionDef}
    \cup {ExprDecl(MatchExpr(Traced(0, sc), <<TracedArm(a, 1)>>)) :
            sc \in {IntLiteral(1), IntLiteral(2),
                    Call(Identifier("Some"), <<IntLiteral(7)>>)},
            a \in MatchArmShapes}
    \cup {ExprDecl(MatchExpr(Traced(0, sc), <<TracedArm(a, 1), TracedArm(b, 2)>>)) :
            sc \in {IntLiteral(1), IntLiteral(2),
                    Call(Identifier("Some"), <<IntLiteral(7)>>)},
            a \in MatchArmShapes, b \in MatchArmShapes}

NextMatch ==
    \/ ReplBegin(MaxMatchDecls)
    \/ \E d \in MatchDecls : EvalDecl(d, MaxMatchDecls)
    \/ ReplEnd
    \/ ReplCatch

SpecMatch == Init /\ [][NextMatch]_vars

(***************************************************************************)
(* Properties of match.                                                    *)
(***************************************************************************)
\* Whether value v has the shape of pattern p (no bindings involved).
RECURSIVE Matches(_, _)
Matches(p, v) ==
    CASE p.k = "WildcardPattern" -> TRUE
      [] p.k = "VarPattern" -> TRUE
      [] p.k = "LiteralPattern" -> v.t = p.value.t /\ v.v = p.value.v
      [] p.k = "ConstructorPattern" ->
            /\ v.t = "adt"
            /\ v.ctorName = p.ctorName
            /\ Len(v.fields) = Len(p.args)
            /\ \A i \in 1..Len(p.args) : Matches(p.args[i], v.fields[i])

\* Whether arm qualifies for v: its pattern matches and its guard, if any,
\* is true.
Qualifies(arm, v) ==
    /\ Matches(arm.pattern, v)
    /\ arm.guard.k # "nullptr" => TracedExpr(arm.guard).value

\* The arms tried for v: all of them up to the first that qualifies.
RECURSIVE ArmsTried(_, _)
ArmsTried(arms, v) ==
    IF arms = <<>> THEN <<>>
    ELSE IF Qualifies(Head(arms), v) THEN <<Head(arms)>>
    ELSE <<Head(arms)>> \o ArmsTried(Tail(arms), v)

\* What the arms tried print: the guard's tag of each arm whose pattern
\* matches, and the body's tag of the arm that qualifies.
RECURSIVE ArmsTrace(_, _)
ArmsTrace(tried, v) ==
    IF tried = <<>> THEN <<>>
    ELSE LET arm == Head(tried)
         IN  (IF Matches(arm.pattern, v) /\ arm.guard.k # "nullptr"
              THEN <<TraceTag(arm.guard)>> ELSE <<>>)
             \o (IF Qualifies(arm, v) THEN <<TraceTag(arm.body)>> ELSE <<>>)
             \o ArmsTrace(Tail(tried), v)

\* The value of the scrutinee expression sc.
ScrutineeValue(sc) ==
    IF sc.k = "IntLiteral" THEN makeInt(sc.value)
    ELSE makeADT("Option", "Some", <<makeInt(sc.args[1].value)>>)

\* C11: a match prints the scrutinee's tag once, then the tags of the guards
\* of the arms whose pattern matches, in source order up to the first arm
\* that qualifies, then that arm's body tag and nothing of any later arm, and
\* yields that body's value; when no arm qualifies it throws
\* no-matching-pattern.
C11_FirstMatchingArm ==
    [][(IsDeclStep /\ ThisDecl.k = "ExprPtr" /\ ThisDecl.e.k = "MatchExpr")
         => LET e == ThisDecl.e
                sc == TracedExpr(e.scrutinee)
                v == ScrutineeValue(sc)
                tried == ArmsTried(e.arms, v)
                last == tried[Len(tried)]
                body == TracedExpr(last.body)
            IN  IF sc.k = "Call" /\ ~EnvHas(frames, env_, "Some")
                THEN /\ out' = out \o <<TraceTag(e.scrutinee)>>
                     /\ mode' = "throwing"
                     /\ lastErr' = "undefined-variable"
                ELSE /\ out' = out \o <<TraceTag(e.scrutinee)>>
                                   \o ArmsTrace(tried, v)
                     /\ IF Qualifies(last, v)
                        THEN /\ mode' = "running"
                             /\ result' =
                                  IF body.k = "IntLiteral"
                                  THEN makeInt(body.value)
                                  ELSE IF body.name = "n" THEN v
                                  ELSE v.fields[1]
                        ELSE /\ mode' = "throwing"
                             /\ lastErr' = "no-matching-pattern"]_vars

\* A match on Some(7) whose first arm matched with a false guard and whose
\* second arm bound k has just yielded 7.
C11_Witness ==
    /\ lastOp.op = "evalDecl"
    /\ lastOp.d.k = "ExprPtr"
    /\ lastOp.d.e.k = "MatchExpr"
    /\ Len(lastOp.d.e.arms) = 2
    /\ lastOp.d.e.arms[1].pattern.k = "VarPattern"
    /\ lastOp.d.e.arms[2].pattern.k = "ConstructorPattern"
    /\ lastOp.ok
    /\ lastOp.v = makeInt(7)
    /\ Len(out) >= 4
    /\ SubSeq(out, Len(out) - 3, Len(out))
          = <<makeInt(0), makeInt(11), makeInt(12), makeInt(22)>>

(***************************************************************************)
(* Specification of equality: `let v = E; v == v` for value recipes E.     *)
(***************************************************************************)
IdLambda == Lambda(<<"y">>, Identifier("y"))

ValueRecipes ==
    {IntLiteral(1), BoolLiteral(TRUE), Block(<<>>),
     ListExpr(<<IntLiteral(1), BoolLiteral(TRUE)>>),
     TupleExpr(<<IntLiteral(1), IntLiteral(2)>>),
     RecordExpr(<<<<"a", IntLiteral(1)>>, <<"b", IntLiteral(2)>>>>),
     MapExpr(<<<<IntLiteral(1), BoolLiteral(TRUE)>>,
               <<IntLiteral(2), BoolLiteral(FALSE)>>>>),
     Call(Identifier("Some"), <<IntLiteral(1)>>),
     Identifier("None"),
     IdLambda,
     Identifier("print"),
     ListExpr(<<IdLambda>>),
     RecordExpr(<<<<"f", Identifier("print")>>>>),
     MapExpr(<<<<IntLiteral(1), IdLambda>>>>),
     Call(Identifier("Some"), <<IdLambda>>)}

SelfEquality(E) ==
    Block(<<LetExpr("v", E, FALSE),
            BinaryOp("EQ", Identifier("v"), Identifier("v"))>>)

EqDecls == {OptionDef} \cup {ExprDecl(SelfEquality(E)) : E \in ValueRecipes}

NextEq ==
    \/ ReplBegin(MaxEqDecls)
    \/ \E d \in EqDecls : EvalDecl(d, MaxEqDecls)
    \/ ReplEnd
    \/ ReplCatch

SpecEq == Init /\ [][NextEq]_vars

RECURSIVE HoldsCallable(_)
HoldsCallable(v) ==
    CASE v.t \in {"closure", "builtin"} -> TRUE
      [] v.t \in {"list", "tuple"} ->
            \E i \in 1..Len(v.elements) : HoldsCallable(v.elements[i])
      [] v.t = "record" -> \E k \in DOMAIN v.fields : HoldsCallable(v.fields[k])
      [] v.t = "map" ->
            \E i \in 1..Len(v.entries) :
                HoldsCallable(v.entries[i].key) \/ HoldsCallable(v.entries[i].value)
      [] v.t = "adt" -> \E i \in 1..Len(v.fields) : HoldsCallable(v.fields[i])
      [] OTHER -> FALSE

MapKeys ==
    {makeInt(1), makeInt(2), makeList(<<makeInt(1)>>),
     makeClosure(<<"y">>, Identifier("y"), 1)}
MapValues == {makeInt(10), makeInt(20)}

\* Whether some key of the sequence keys is structurally equal to key.
HasKey(keys, key) == \E i \in 1..Len(keys) : Equals(keys[i], key)

\* The keys of keys that are not structurally equal to key, in order.
RECURSIVE WithoutKey(_, _)
WithoutKey(keys, key) ==
    IF keys = <<>> THEN <<>>
    ELSE (IF Equals(Head(keys), key) THEN <<>> ELSE <<Head(keys)>>)
         \o WithoutKey(Tail(keys), key)

\* m.set(key, value)
MapSet(key, value) ==
    /\ nSteps < MaxMapOps
    /\ nSteps' = nSteps + 1
    /\ mapEntries' = MapValueSet(mapEntries, key, value)
    /\ insertOrder' = IF HasKey(insertOrder, key) THEN insertOrder
                      ELSE Append(insertOrder, key)
    /\ lastOp' = [op |-> "set", key |-> key, value |-> value]
    /\ UNCHANGED exceptMapVars

\* m.remove(key)
MapRemove(key) ==
    /\ nSteps < MaxMapOps
    /\ nSteps' = nSteps + 1
    /\ mapEntries' = MapValueRemove(mapEntries, key)
    /\ insertOrder' = WithoutKey(insertOrder, key)
    /\ lastOp' = [op |-> "remove", key |-> key]
    /\ UNCHANGED exceptMapVars

NextMap ==
    \/ \E key \in MapKeys, value \in MapValues : MapSet(key, value)
    \/ \E key \in MapKeys : MapRemove(key)

SpecMap == Init /\ [][NextMap]_vars

(***************************************************************************)
(* Properties of maps.                                                     *)
(***************************************************************************)
\* The keys of a sequence of entries, in iteration order.
KeysOf(entries) == [i \in 1..Len(entries) |-> entries[i].key]

\* The positions of the entries whose key is structurally equal to key.
PositionsOf(entries, key) ==
    {i \in 1..Len(entries) : Equals(entries[i].key, key)}

FieldNames == {"a", "b", "c", "d"}
FieldValues == {1, 2}

\* The sequences of distinct elements of S.
Orders(S) ==
    {o \in [1..Cardinality(S) -> S] :
        \A i, j \in 1..Cardinality(S) : o[i] = o[j] => i = j}

\* Record literals of up to MaxFields distinct fields with integer values.
RecordLiterals ==
    UNION {UNION {{RecordExpr([i \in 1..Len(names) |->
                                 <<names[i], IntLiteral(vals[i])>>]) :
                     vals \in [1..Len(names) -> FieldValues]} :
                  names \in Orders(N)} :
           N \in {M \in SUBSET FieldNames :
                    M # {} /\ Cardinality(M) <= MaxFields}}

\* Value::toString of an integer, a boolean or unit.
toStringScalar(v) ==
    CASE v.t = "int" -> ToString(v.v)
      [] v.t = "bool" -> (IF v.v THEN "true" ELSE "false")
      [] OTHER -> "()"

\* Value::toString of a record whose fields the loop
\* `for (const auto& [k, v] : rec.fields)` visits in the order `order`.
RECURSIVE toStringFields(_, _, _)
toStringFields(fields, order, first) ==
    IF order = <<>> THEN ""
    ELSE (IF first THEN "" ELSE ", ")
         \o Head(order) \o ": " \o toStringScalar(fields[Head(order)])
         \o toStringFields(fields, Tail(order), FALSE)

toStringRecord(fields, order) ==
    "{ " \o toStringFields(fields, order, TRUE) \o " }"

\* The orders in which an unordered_map holding these keys may be iterated:
\* the container does not specify one.
IterationOrders(fields) == Orders(DOMAIN fields)

\* eval(RecordExpr) on a fresh evaluator.
RecordEval(e) ==
    /\ recValue = NoValue
    /\ LET R == eval(e, env_, [fr |-> frames, out |-> out, sets |-> <<>>,
                  matches |-> <<>>])
       IN  /\ R.ok
           /\ recValue' = R.v
    /\ recSource' = [i \in 1..Len(e.fields) |-> e.fields[i][1]]
    /\ lastOp' = [op |-> "evalRecordExpr", e |-> e]
    /\ nSteps' = nSteps + 1
    /\ UNCHANGED <<recShown, exceptRecordVars>>

\* recValue->toString()
RecordToString ==
    /\ recValue # NoValue
    /\ recShown = ""
    /\ \E order \in IterationOrders(recValue.fields) :
          recShown' = toStringRecord(recValue.fields, order)
    /\ lastOp' = [op |-> "toString"]
    /\ nSteps' = nSteps + 1
    /\ UNCHANGED <<recSource, recValue, exceptRecordVars>>

NextRecord ==
    \/ /\ recValue = NoValue
       /\ \E e \in RecordLiterals : RecordEval(e)
    \/ RecordToString

SpecRecord == Init /\ [][NextRecord]_vars

(***************************************************************************)
(* Properties of records.                                                  *)
(***************************************************************************)
\* C14: the record that a literal with distinct fields f1 .. fn yields holds
\* exactly these fields, and its printed form is `{ f1: v1, ..., fn: vn }`
\* with the fields in source order.
C14_SourceOrder ==
    /\ recValue # NoValue => DOMAIN recValue.fields =
                               {recSource[i] : i \in 1..Len(recSource)}
    /\ recShown # "" => recShown = toStringRecord(recValue.fields, recSource)

(***************************************************************************)
(* The lexer (lexer.cpp).  A source is a sequence of characters; pos_      *)
(* counts the characters consumed.  Lines and columns are left out.        *)
(***************************************************************************)
\* static const std::unordered_map<std::string, TokenType> keywords
keywords ==
    {[word |-> <<"l", "e", "t">>, type |-> "LET"],
     [word |-> <<"f", "n">>, type |-> "FN"],
     [word |-> <<"i", "f">>, type |-> "IF"],
     [word |-> <<"e", "l", "s", "e">>, type |-> "ELSE"],
     [word |-> <<"m", "a", "t", "c", "h">>, type |-> "MATCH"],
     [word |-> <<"t", "y", "p", "e">>, type |-> "TYPE"],
     [word |-> <<"m", "o", "d", "u", "l", "e">>, type |-> "MODULE"],
     [word |-> <<"i", "m", "p", "o", "r", "t">>, type |-> "IMPORT"],
     [word |-> <<"t", "r", "u", "e">>, type |-> "TRUE"],
     [word |-> <<"f", "a", "l", "s", "e">>, type |-> "FALSE"]}

\* What current() and peek() return beyond the end of the source: '\0'.
NUL == "\\0"

isdigit(c) == c \in {"0", "1", "2", "3", "4", "5", "6", "7", "8", "9"}
isalpha(c) ==
    c \in {"a", "b", "c", "d", "e", "f", "g", "h", "i", "j", "k", "l", "m",
           "n", "o", "p", "q", "r", "s", "t", "u", "v", "w", "x", "y", "z"}
isalnum(c) == isalpha(c) \/ isdigit(c)

peek(src, pos, offset) ==
    IF pos + offset >= Len(src) THEN NUL ELSE src[pos + offset + 1]
current(src, pos) == peek(src, pos, 0)

RECURSIVE skipWhitespace(_, _)
skipWhitespace(src, pos) ==
    IF current(src, pos) \in {" ", "\t", "\r"}
    THEN skipWhitespace(src, pos + 1) ELSE pos

RECURSIVE skipToEndOfLine(_, _)
skipToEndOfLine(src, pos) ==
    IF current(src, pos) # "\n" /\ current(src, pos) # NUL
    THEN skipToEndOfLine(src, pos + 1) ELSE pos

skipComment(src, pos) ==
    IF current(src, pos) = "/" /\ peek(src, pos, 1) = "/"
    THEN skipToEndOfLine(src, pos) ELSE pos

Token(type, value, pos) ==
    [t |-> "token", type |-> type, value |-> value, pos |-> pos]
ThrowLexerError(msg) == [t |-> "throw", what |-> "LexerError", msg |-> msg]
ThrowOutOfRange == [t |-> "throw", what |-> "std::out_of_range", msg |-> "stoll"]

\* The position after the run of digits that starts at pos.
RECURSIVE skipDigits(_, _)
skipDigits(src, pos) ==
    IF isdigit(current(src, pos)) THEN skipDigits(src, pos + 1) ELSE pos

RECURSIVE StripZeros(_)
StripZeros(num) ==
    IF Len(num) > 1 /\ Head(num) = "0" THEN StripZeros(Tail(num)) ELSE num

DigitValue(c) ==
    CASE c = "0" -> 0 [] c = "1" -> 1 [] c = "2" -> 2 [] c = "3" -> 3
      [] c = "4" -> 4 [] c = "5" -> 5 [] c = "6" -> 6 [] c = "7" -> 7
      [] c = "8" -> 8 [] c = "9" -> 9

\* Whether the numeral a denotes a greater number than the numeral b of the
\* same length.
RECURSIVE NumeralGreater(_, _)
NumeralGreater(a, b) ==
    IF a = <<>> THEN FALSE
    ELSE IF Head(a) # Head(b) THEN DigitValue(Head(a)) > DigitValue(Head(b))
    ELSE NumeralGreater(Tail(a), Tail(b))

\* The numeral of the greatest long long, 2^63 - 1.
LLONG_MAX ==
    <<"9", "2", "2", "3", "3", "7", "2", "0", "3", "6", "8", "5", "4", "7",
      "7", "5", "8", "0", "7">>

\* std::stoll on a run of digits: the number it denotes, kept as its
\* numeral without leading zeros, or std::out_of_range beyond LLONG_MAX.
stoll(num) ==
    LET n == StripZeros(num)
    IN  IF \/ Len(n) > Len(LLONG_MAX)
           \/ Len(n) = Len(LLONG_MAX) /\ NumeralGreater(n, LLONG_MAX)
        THEN [ok |-> FALSE, v |-> <<>>]
        ELSE [ok |-> TRUE, v |-> n]

\* The payload of a FLOAT token is kept as the text that std::stod reads.
readNumber(src, pos) ==
    LET intEnd == skipDigits(src, pos)
        isFloat == current(src, intEnd) = "." /\ isdigit(peek(src, intEnd, 1))
        end == IF isFloat THEN skipDigits(src, intEnd + 1) ELSE intEnd
        num == SubSeq(src, pos + 1, end)
    IN  IF isFloat THEN Token("FLOAT", num, end)
        ELSE IF stoll(num).ok THEN Token("INT", stoll(num).v, end)
        ELSE ThrowOutOfRange

Unescape(c) ==
    CASE c = "n" -> "\n" [] c = "t" -> "\t" [] c = "r" -> "\r" [] OTHER -> c

\* The loop of readString from position pos with str read so far.
RECURSIVE readStringLoop(_, _, _)
readStringLoop(src, pos, str) ==
    IF current(src, pos) # "\"" /\ current(src, pos) # NUL
    THEN IF current(src, pos) = "\\"
         THEN readStringLoop(src, pos + 2,
                             Append(str, Unescape(current(src, pos + 1))))
         ELSE readStringLoop(src, pos + 1, Append(str, current(src, pos)))
    ELSE IF current(src, pos) = NUL
         THEN ThrowLexerError("Unterminated string literal")
         ELSE Token("STRING", str, pos + 1)

readString(src, pos) == readStringLoop(src, pos + 1, <<>>)

RECURSIVE skipIdent(_, _)
skipIdent(src, pos) ==
    IF isalnum(current(src, pos)) \/ current(src, pos) = "_"
    THEN skipIdent(src, pos + 1) ELSE pos

readIdentOrKeyword(src, pos) ==
    LET end == skipIdent(src, pos)
        ident == SubSeq(src, pos + 1, end)
    IN  IF \E kw \in keywords : kw.word = ident
        THEN Token((CHOOSE kw \in keywords : kw.word = ident).type, <<>>, end)
        ELSE Token("IDENT", ident, end)

SingleCharTokens ==
    [c \in {"+", "-", "*", "/", "%", "<", ">", "!", "=", "|", "(", ")", "{",
            "}", "[", "]", ",", ":", ";", "."} |->
        CASE c = "+" -> "PLUS" [] c = "-" -> "MINUS" [] c = "*" -> "STAR"
          [] c = "/" -> "SLASH" [] c = "%" -> "PERCENT" [] c = "<" -> "LT"
          [] c = ">" -> "GT" [] c = "!" -> "NOT" [] c = "=" -> "ASSIGN"
          [] c = "|" -> "PIPE" [] c = "(" -> "LPAREN" [] c = ")" -> "RPAREN"
          [] c = "{" -> "LBRACE" [] c = "}" -> "RBRACE"
          [] c = "[" -> "LBRACKET" [] c = "]" -> "RBRACKET"
          [] c = "," -> "COMMA" [] c = ":" -> "COLON"
          [] c = ";" -> "SEMICOLON" [] c = "." -> "DOT"]

\* Lexer::nextToken from `if (current() == '\0')` on.
scanToken(src, pos0) ==
    LET pos == skipWhitespace(src, pos0)
        c == current(src, pos)
        c1 == peek(src, pos, 1)
    IN  CASE c = NUL -> Token("END_OF_FILE", <<>>, pos)
          [] c = "\n" -> Token("NEWLINE", <<>>, pos + 1)
          [] isdigit(c) -> readNumber(src, pos)
          [] c = "\"" -> readString(src, pos)
          [] isalpha(c) \/ c = "_" -> readIdentOrKeyword(src, pos)
          [] OTHER ->
              IF c = "=" /\ c1 = ">" THEN Token("ARROW", <<>>, pos + 2)
              ELSE IF c = "=" /\ c1 = "=" THEN Token("EQ", <<>>, pos + 2)
              ELSE IF c = "!" /\ c1 = "=" THEN Token("NEQ", <<>>, pos + 2)
              ELSE IF c = "<" /\ c1 = "=" THEN Token("LTE", <<>>, pos + 2)
              ELSE IF c = ">" /\ c1 = "=" THEN Token("GTE", <<>>, pos + 2)
              ELSE IF c = "&" /\ c1 = "&" THEN Token("AND", <<>>, pos + 2)
              ELSE IF c = "|" /\ c1 = "|" THEN Token("OR", <<>>, pos + 2)
              ELSE IF c = "." /\ c1 = "." /\ peek(src, pos, 2) = "."
                   THEN Token("DOTDOTDOT", <<>>, pos + 3)
              ELSE IF c \in DOMAIN SingleCharTokens
                   THEN Token(SingleCharTokens[c], <<>>, pos + 1)
              ELSE ThrowLexerError("Unexpected character")

\* Lexer::nextToken
nextToken(src, pos0) ==
    scanToken(src, skipComment(src, skipWhitespace(src, pos0)))

(***************************************************************************)
(* Specification of the lexer: a Lexer is constructed on a source and      *)
(* tokenize runs its loop.                                                 *)
(***************************************************************************)
\* The keyword token types of the token enumeration (lexer.hpp), each with
\* the word it stands for.
KeywordTokens ==
    {[word |-> <<"l", "e", "t">>, type |-> "LET"],
     [word |-> <<"c", "o", "n", "s", "t">>, type |-> "CONST"],
     [word |-> <<"f", "n">>, type |-> "FN"],
     [word |-> <<"i", "f">>, type |-> "IF"],
     [word |-> <<"e", "l", "s", "e">>, type |-> "ELSE"],
     [word |-> <<"m", "a", "t", "c", "h">>, type |-> "MATCH"],
     [word |-> <<"w", "h", "i", "l", "e">>, type |-> "WHILE"],
     [word |-> <<"f", "o", "r">>, type |-> "FOR"],
     [word |-> <<"i", "n">>, type |-> "IN"],
     [word |-> <<"a", "s">>, type |-> "AS"],
     [word |-> <<"t", "y", "p", "e">>, type |-> "TYPE"],
     [word |-> <<"m", "o", "d", "u", "l", "e">>, type |-> "MODULE"],
     [word |-> <<"i", "m", "p", "o", "r", "t">>, type |-> "IMPORT"],
     [word |-> <<"t", "r", "u", "e">>, type |-> "TRUE"],
     [word |-> <<"f", "a", "l", "s", "e">>, type |-> "FALSE"]}

KeywordWords == {kw.word : kw \in KeywordTokens}

\* The pieces that the sources are put together from.
Pieces ==
    KeywordWords \cup
    {<<"x">>,
     <<"_">>,
     <<"0">>,
     <<"1">>,
     <<"9", "2", "2", "3", "3", "7", "2", "0", "3", "6", "8", "5", "4", "7", "7", "5", "8", "0", "7">>,
     <<"9", "2", "2", "3", "3", "7", "2", "0", "3", "6", "8", "5", "4", "7", "7", "5", "8", "0", "8">>,
     <<" ">>,
     <<"\n">>,
     <<"/">>,
     <<"/", "/", "c">>,
     <<"\"">>,
     <<"\\">>,
     <<"\"", "a", "\\", "n", "\"">>,
     <<"=">>,
     <<">">>,
     <<"!">>,
     <<".">>,
     <<".", ".", ".">>,
     <<"&">>,
     <<"+">>,
     <<"(">>,
     <<"@">>}

RECURSIVE SourcesOf(_)
SourcesOf(n) ==
    IF n = 0 THEN {<<>>}
    ELSE SourcesOf(n - 1)
         \cup {s \o p : s \in SourcesOf(n - 1), p \in Pieces}

Sources == SourcesOf(MaxPieces)

\* Lexer lexer(src, filename)
LexerNew(src) ==
    /\ lexState = "none"
    /\ source_' = src
    /\ pos_' = 0
    /\ tokens' = <<>>
    /\ lexState' = "scanning"
    /\ lastOp' = [op |-> "Lexer"]
    /\ nSteps' = nSteps + 1
    /\ UNCHANGED exceptLexerVars

\* One iteration of the loop of Lexer::tokenize.
TokenizeStep ==
    /\ lexState = "scanning"
    /\ LET tok == nextToken(source_, pos_)
       IN  IF tok.t = "throw"
           THEN /\ lexState' = tok.what
                /\ lastOp' = [op |-> "nextToken", tok |-> tok]
                /\ UNCHANGED <<pos_, tokens>>
           ELSE /\ pos_' = tok.pos
                /\ tokens' = Append(tokens, [type |-> tok.type, value |-> tok.value])
                /\ lexState' = IF tok.type = "END_OF_FILE" THEN "returned"
                               ELSE "scanning"
                /\ lastOp' = [op |-> "nextToken", tok |-> tok]
    /\ nSteps' = nSteps + 1
    /\ UNCHANGED <<source_, exceptLexerVars>>

NextLexer ==
    \/ /\ lexState = "none"
       /\ \E src \in Sources : LexerNew(src)
    \/ TokenizeStep

SpecLexer == Init /\ [][NextLexer]_vars

(***************************************************************************)
(* Properties of the lexer.                                                *)
(***************************************************************************)
\* C15: tokenize terminates: every call of nextToken that returns a token
\* other than END_OF_FILE consumes at least one character of the finite
\* source, and the loop ends at the first END_OF_FILE; what leaves tokenize
\* is a lexer error or a token sequence that ends in its only END_OF_FILE.
C15_Tokenize ==
    /\ [][lexState = "scanning" /\ lexState' = "scanning" => pos_' > pos_]_vars
    /\ [](pos_ <= Len(source_) + 1)
    /\ [](lexState \in {"none", "scanning", "returned", "LexerError"})
    /\ [](lexState = "returned" =>
            /\ tokens # <<>>
            /\ \A i \in 1..Len(tokens) :
                  tokens[i].type = "END_OF_FILE" <=> i = Len(tokens))

\* The position of the first character of the token that nextToken reads.
TokenStart ==
    skipWhitespace(source_, skipComment(source_, skipWhitespace(source_, pos_)))

\* tokenize has just appended a token that starts with a letter or `_`.
WordStep ==
    /\ lexState = "scanning"
    /\ Len(tokens') = Len(tokens) + 1
    /\ isalpha(current(source_, TokenStart)) \/ current(source_, TokenStart) = "_"

\* C16: a word that is a keyword is emitted as the token of that keyword,
\* never as IDENT; every other identifier-shaped word is emitted as IDENT
\* with the word as its payload.
C16_Keywords ==
    [][WordStep =>
         LET word == SubSeq(source_, TokenStart + 1, pos_')
             tok == tokens'[Len(tokens')]
         IN  IF word \in KeywordWords
             THEN tok.type = (CHOOSE kw \in KeywordTokens : kw.word = word).type
             ELSE tok.type = "IDENT" /\ tok.value = word]_vars

(***************************************************************************)
(* The parser of expressions (parser.cpp).  A token is a record of a type  *)
(* and a payload; the sequences parsed hold no `fn`, `if`, `match`, float, *)
(* string, type annotation or record literal, so the branches of parseExpr *)
(* and parsePrimary for them are left out.                                 *)
(***************************************************************************)
Tok(type) == [type |-> type, value |-> <<>>]
TokInt(num) == [type |-> "INT", value |-> num]
TokIdent(name) == [type |-> "IDENT", value |-> name]

\* Parser::current at position pos (0-based) and Parser::check.
currentToken(toks, pos) == IF pos >= Len(toks) THEN toks[Len(toks)] ELSE toks[pos + 1]
checkType(toks, pos) == currentToken(toks, pos).type
isAtEnd(toks, pos) == checkType(toks, pos) = "END_OF_FILE"
\* Parser::advance
advance(toks, pos) == IF isAtEnd(toks, pos) THEN pos ELSE pos + 1

RECURSIVE skipNewlines(_, _)
skipNewlines(toks, pos) ==
    IF checkType(toks, pos) = "NEWLINE" THEN skipNewlines(toks, advance(toks, pos))
    ELSE pos

\* What a parsing function yields: the expression and the position after
\* it, or the ParseError thrown.  A function that goes on with the outcome R
\* of a call is written LET WithR(R) == ... IN WithR(call).
Parsed(e, pos) == [ok |-> TRUE, e |-> e, pos |-> pos]
ThrowParseError(msg, pos) == [ok |-> FALSE, err |-> msg, pos |-> pos]

RECURSIVE parseExpr(_, _)
RECURSIVE parseLetExpr(_, _)
RECURSIVE parseBlock(_, _)
RECURSIVE parseBlockLoop(_, _, _)
RECURSIVE parseOr(_, _)
RECURSIVE parseOrLoop(_, _, _, _)
RECURSIVE parseAnd(_, _)
RECURSIVE parseAndLoop(_, _, _, _)
RECURSIVE parseEquality(_, _)
RECURSIVE parseEqualityLoop(_, _, _, _)
RECURSIVE parseComparison(_, _)
RECURSIVE parseComparisonLoop(_, _, _, _)
RECURSIVE parseTerm(_, _)
RECURSIVE parseTermLoop(_, _, _, _)
RECURSIVE parseFactor(_, _)
RECURSIVE parseFactorLoop(_, _, _, _)
RECURSIVE parseUnary(_, _)
RECURSIVE parseCall(_, _)
RECURSIVE parseCallLoop(_, _, _)
RECURSIVE parsePrimary(_, _)
RECURSIVE parseArgs(_, _)
RECURSIVE parseExprList(_, _, _, _)
RECURSIVE lambdaParams(_, _, _)

\* parseExpr; a `{` opens a block, since no record literal is parsed.
parseExpr(toks, pos0) ==
    LET WithPos(pos) ==
            CASE checkType(toks, pos) = "LET" -> parseLetExpr(toks, pos)
              [] checkType(toks, pos) = "LBRACE" -> parseBlock(toks, pos)
              [] OTHER -> parseOr(toks, pos)
    IN  WithPos(skipNewlines(toks, pos0))

\* parseLetExpr for a binding without type annotation; isConst is left at
\* its default.
parseLetExpr(toks, pos) ==
    LET namePos == advance(toks, pos)
        assignPos == advance(toks, namePos)
    IN  IF checkType(toks, namePos) # "IDENT"
        THEN ThrowParseError("Expected identifier", namePos)
        ELSE IF checkType(toks, assignPos) # "ASSIGN"
        THEN ThrowParseError("Expected '='", assignPos)
        ELSE LET WithV(V) ==
                     IF ~V.ok THEN V
                     ELSE Parsed(LetExpr(currentToken(toks, namePos).value, V.e, FALSE),
                                 IF checkType(toks, V.pos) = "SEMICOLON"
                                 THEN advance(toks, V.pos) ELSE V.pos)
             IN  WithV(parseExpr(toks, advance(toks, assignPos)))

parseBlockLoop(toks, pos, exprs) ==
    IF checkType(toks, pos) # "RBRACE" /\ ~isAtEnd(toks, pos)
    THEN LET WithR(R) ==
                 IF ~R.ok THEN R
                 ELSE parseBlockLoop(toks, skipNewlines(toks, R.pos), Append(exprs, R.e))
         IN  WithR(parseExpr(toks, pos))
    ELSE IF checkType(toks, pos) # "RBRACE"
    THEN ThrowParseError("Expected '}'", pos)
    ELSE Parsed(Block(exprs), advance(toks, pos))

parseBlock(toks, pos) ==
    parseBlockLoop(toks, skipNewlines(toks, advance(toks, pos)), <<>>)

\* Each level is `left = parseNext(); while (match(ops)) { right = parseNext();
\* left = BinaryOp(op, left, right); }`.  The loop reads the operand at pos:
\* the first operand when op is "", else the right operand of op, whose left
\* operand is left.
parseOrLoop(toks, pos, left, op) ==
    LET WithR(R) ==
            IF ~R.ok THEN R
            ELSE LET e == IF op = "" THEN R.e ELSE BinaryOp(op, left, R.e)
                 IN  IF checkType(toks, R.pos) \in {"OR"}
                     THEN parseOrLoop(toks, advance(toks, R.pos), e,
                            "OR")
                     ELSE Parsed(e, R.pos)
    IN  WithR(parseAnd(toks, pos))

parseOr(toks, pos) == parseOrLoop(toks, pos, NoExpr, "")

parseAndLoop(toks, pos, left, op) ==
    LET WithR(R) ==
            IF ~R.ok THEN R
            ELSE LET e == IF op = "" THEN R.e ELSE BinaryOp(op, left, R.e)
                 IN  IF checkType(toks, R.pos) \in {"AND"}
                     THEN parseAndLoop(toks, advance(toks, R.pos), e,
                            "AND")
                     ELSE Parsed(e, R.pos)
    IN  WithR(parseEquality(toks, pos))

parseAnd(toks, pos) == parseAndLoop(toks, pos, NoExpr, "")

parseEqualityLoop(toks, pos, left, op) ==
    LET WithR(R) ==
            IF ~R.ok THEN R
            ELSE LET e == IF op = "" THEN R.e ELSE BinaryOp(op, left, R.e)
                 IN  IF checkType(toks, R.pos) \in {"EQ", "NEQ"}
                     THEN parseEqualityLoop(toks, advance(toks, R.pos), e,
                            CASE checkType(toks, R.pos) = "EQ" -> "EQ"
                             [] checkType(toks, R.pos) = "NEQ" -> "NEQ")
                     ELSE Parsed(e, R.pos)
    IN  WithR(parseComparison(toks, pos))

parseEquality(toks, pos) == parseEqualityLoop(toks, pos, NoExpr, "")

parseComparisonLoop(toks, pos, left, op) ==
    LET WithR(R) ==
            IF ~R.ok THEN R
            ELSE LET e == IF op = "" THEN R.e ELSE BinaryOp(op, left, R.e)
                 IN  IF checkType(toks, R.pos) \in {"LT", "GT", "LTE", "GTE"}
                     THEN parseComparisonLoop(toks, advance(toks, R.pos), e,
                            CASE checkType(toks, R.pos) = "LT" -> "LT"
                             [] checkType(toks, R.pos) = "GT" -> "GT"
                             [] checkType(toks, R.pos) = "LTE" -> "LTE"
                             [] checkType(toks, R.pos) = "GTE" -> "GTE")
                     ELSE Parsed(e, R.pos)
    IN  WithR(parseTerm(toks, pos))

parseComparison(toks, pos) == parseComparisonLoop(toks, pos, NoExpr, "")

parseTermLoop(toks, pos, left, op) ==
    LET WithR(R) ==
            IF ~R.ok THEN R
            ELSE LET e == IF op = "" THEN R.e ELSE BinaryOp(op, left, R.e)
                 IN  IF checkType(toks, R.pos) \in {"PLUS", "MINUS"}
                     THEN parseTermLoop(toks, advance(toks, R.pos), e,
                            CASE checkType(toks, R.pos) = "PLUS" -> "ADD"
                             [] checkType(toks, R.pos) = "MINUS" -> "SUB")
                     ELSE Parsed(e, R.pos)
    IN  WithR(parseFactor(toks, pos))

parseTerm(toks, pos) == parseTermLoop(toks, pos, NoExpr, "")

parseFactorLoop(toks, pos, left, op) ==
    LET WithR(R) ==
            IF ~R.ok THEN R
            ELSE LET e == IF op = "" THEN R.e ELSE BinaryOp(op, left, R.e)
                 IN  IF checkType(toks, R.pos) \in {"STAR", "SLASH", "PERCENT"}
                     THEN parseFactorLoop(toks, advance(toks, R.pos), e,
                            CASE checkType(toks, R.pos) = "STAR" -> "MUL"
                             [] checkType(toks, R.pos) = "SLASH" -> "DIV"
                             [] checkType(toks, R.pos) = "PERCENT" -> "MOD")
                     ELSE Parsed(e, R.pos)
    IN  WithR(parseUnary(toks, pos))

parseFactor(toks, pos) == parseFactorLoop(toks, pos, NoExpr, "")

\* A unary operator that takes a whole sum as its operand.
parseUnaryLoose(toks, pos) ==
    IF checkType(toks, pos) \in {"MINUS", "NOT"}
    THEN LET WithR(R) ==
                 IF ~R.ok THEN R
                 ELSE Parsed(UnaryOp(IF checkType(toks, pos) = "MINUS" THEN "NEG"
                                     ELSE "NOT", R.e), R.pos)
         IN  WithR(parseTerm(toks, advance(toks, pos)))
    ELSE parseCall(toks, pos)

parseUnary(toks, pos) ==
    IF checkType(toks, pos) \in {"MINUS", "NOT"}
    THEN LET WithR(R) ==
                 IF ~R.ok THEN R
                 ELSE Parsed(UnaryOp(IF checkType(toks, pos) = "MINUS" THEN "NEG"
                                     ELSE "NOT", R.e), R.pos)
         IN  WithR(parseUnary(toks, advance(toks, pos)))
    ELSE parseCall(toks, pos)

parseCallLoop(toks, pos, expr) ==
    IF checkType(toks, pos) = "LPAREN"
    THEN LET WithA(A) ==
                 IF ~A.ok THEN A ELSE parseCallLoop(toks, A.pos, Call(expr, A.e))
         IN  WithA(parseArgs(toks, pos))
    ELSE IF checkType(toks, pos) = "DOT"
    THEN IF checkType(toks, advance(toks, pos)) # "IDENT"
         THEN ThrowParseError("Expected field name", advance(toks, pos))
         ELSE parseCallLoop(toks, advance(toks, advance(toks, pos)),
                FieldAccess(expr, currentToken(toks, advance(toks, pos)).value))
    ELSE Parsed(expr, pos)

parseCall(toks, pos) ==
    LET WithP(P) ==
            IF ~P.ok THEN P ELSE parseCallLoop(toks, P.pos, P.e)
    IN  WithP(parsePrimary(toks, pos))

\* `do { elements.push_back(parseExpr()); } while (match(COMMA))`, which in
\* a tuple stops at a `)` that follows a comma (stopAtClose).
parseExprList(toks, pos, elements, stopAtClose) ==
    LET WithR(R) ==
            IF ~R.ok THEN R
            ELSE IF checkType(toks, R.pos) = "COMMA"
            THEN IF stopAtClose /\ checkType(toks, advance(toks, R.pos)) = "RPAREN"
                 THEN Parsed(Append(elements, R.e), advance(toks, R.pos))
                 ELSE parseExprList(toks, advance(toks, R.pos),
                                    Append(elements, R.e), stopAtClose)
            ELSE Parsed(Append(elements, R.e), R.pos)
    IN  WithR(parseExpr(toks, pos))

parseArgs(toks, pos) ==
    IF checkType(toks, pos) # "LPAREN" THEN ThrowParseError("Expected '('", pos)
    ELSE LET WithA(A) ==
                 IF ~A.ok THEN A
                 ELSE IF checkType(toks, A.pos) # "RPAREN"
                 THEN ThrowParseError("Expected ')'", A.pos)
                 ELSE Parsed(A.e, advance(toks, A.pos))
         IN  WithA(IF checkType(toks, advance(toks, pos)) = "RPAREN"
                   THEN Parsed(<<>>, advance(toks, pos))
                   ELSE parseExprList(toks, advance(toks, pos), <<>>, FALSE))

\* The look-ahead of parsePrimary for `(x, y) =>`, for parameters without
\* type annotations: the parameters read and the position after them.
lambdaParams(toks, pos, params) ==
    IF checkType(toks, pos) # "IDENT" THEN [params |-> params, pos |-> pos]
    ELSE LET next == advance(toks, pos)
             ps == Append(params, currentToken(toks, pos).value)
         IN  IF checkType(toks, next) = "COMMA"
             THEN lambdaParams(toks, advance(toks, next), ps)
             ELSE [params |-> ps, pos |-> next]

parsePrimary(toks, pos) ==
    LET type == checkType(toks, pos)
        next == advance(toks, pos)
    IN  CASE type = "INT" -> Parsed(IntLiteral(currentToken(toks, pos).value), next)
          [] type = "TRUE" -> Parsed(BoolLiteral(TRUE), next)
          [] type = "FALSE" -> Parsed(BoolLiteral(FALSE), next)
          [] type = "IDENT" -> Parsed(Identifier(currentToken(toks, pos).value), next)
          [] type = "LPAREN" ->
              IF checkType(toks, next) = "RPAREN"
              THEN Parsed(TupleExpr(<<>>), advance(toks, next))
              ELSE LET look == lambdaParams(toks, next, <<>>)
                       isLambda == /\ checkType(toks, next) = "IDENT"
                                   /\ checkType(toks, look.pos) = "RPAREN"
                                   /\ checkType(toks, advance(toks, look.pos)) = "ARROW"
                   IN  IF isLambda
                       THEN LET B == parseExpr(toks, advance(toks, advance(toks, look.pos)))
                            IN  IF ~B.ok THEN B
                                ELSE Parsed(Lambda(look.params, B.e), B.pos)
                       ELSE LET F == parseExpr(toks, next)
                            IN  IF ~F.ok THEN F
                                ELSE IF checkType(toks, F.pos) = "COMMA"
                                THEN LET T == IF checkType(toks, advance(toks, F.pos)) = "RPAREN"
                                              THEN Parsed(<<F.e>>, advance(toks, F.pos))
                                              ELSE parseExprList(toks, advance(toks, F.pos),
                                                                 <<F.e>>, TRUE)
                                     IN  IF ~T.ok THEN T
                                         ELSE IF checkType(toks, T.pos) # "RPAREN"
                                         THEN ThrowParseError("Expected ')'", T.pos)
                                         ELSE Parsed(TupleExpr(T.e), advance(toks, T.pos))
                                ELSE IF checkType(toks, F.pos) # "RPAREN"
                                THEN ThrowParseError("Expected ')'", F.pos)
                                ELSE Parsed(F.e, advance(toks, F.pos))
          [] type = "LBRACKET" ->
              LET A == IF checkType(toks, next) = "RBRACKET" THEN Parsed(<<>>, next)
                       ELSE parseExprList(toks, next, <<>>, FALSE)
              IN  IF ~A.ok THEN A
                  ELSE IF checkType(toks, A.pos) # "RBRACKET"
                  THEN ThrowParseError("Expected ']'", A.pos)
                  ELSE Parsed(ListExpr(A.e), advance(toks, A.pos))
          [] type = "LBRACE" -> parseBlock(toks, pos)
          [] OTHER -> ThrowParseError("Unexpected token", pos)

\* The loop of Parser::parse from position pos with the declarations read.
RECURSIVE parseDecls(_, _, _)
parseDecls(toks, pos, declarations) ==
    IF isAtEnd(toks, pos)
    THEN [t |-> "Program", declarations |-> declarations]
    ELSE LET WithD(D) ==
                 IF ~D.ok THEN [t |-> "ParseError", err |-> D.err]
                 ELSE parseDecls(toks, skipNewlines(toks, D.pos),
                                 Append(declarations, D.e))
         IN  WithD(parseExpr(toks, pos))

\* Parser::parse
parse(toks) == parseDecls(toks, skipNewlines(toks, 0), <<>>)

(***************************************************************************)
(* Specification of the parser: a Parser is constructed on the tokens of   *)
(* operands joined by binary operators, and parse runs.                    *)
(***************************************************************************)
X == <<"x">>
F == <<"f">>
One == <<"1">>

\* The operands, written as tokens: `x`, `-x.f(1)` and `!(x || 1)`.
OperandTokens ==
    [x |-> <<TokIdent(X)>>,
     negcall |-> <<Tok("MINUS"), TokIdent(X), Tok("DOT"), TokIdent(F),
                   Tok("LPAREN"), TokInt(One), Tok("RPAREN")>>,
     notgroup |-> <<Tok("NOT"), Tok("LPAREN"), TokIdent(X), Tok("OR"),
                    TokInt(One), Tok("RPAREN")>>]

OperandNames == DOMAIN OperandTokens

\* The token of each binary operator (BinaryOp::Op).
OperatorToken ==
    [OR |-> "OR", AND |-> "AND", EQ |-> "EQ", NEQ |-> "NEQ", LT |-> "LT",
     GT |-> "GT", LTE |-> "LTE", GTE |-> "GTE", ADD |-> "PLUS",
     SUB |-> "MINUS", MUL |-> "STAR", DIV |-> "SLASH", MOD |-> "PERCENT"]

Operators == DOMAIN OperatorToken

\* operand1 op1 operand2 ... as tokens, closed by END_OF_FILE.
RECURSIVE TokensOf(_, _)
TokensOf(operands, ops) ==
    IF ops = <<>> THEN OperandTokens[operands[1]] \o <<Tok("END_OF_FILE")>>
    ELSE OperandTokens[operands[1]] \o <<Tok(OperatorToken[ops[1]])>>
         \o TokensOf(Tail(operands), Tail(ops))

\* Parser parser(tokens)
ParserNew(operands, ops) ==
    /\ parsed.t = "none"
    /\ tokens_ = <<>>
    /\ tokens_' = TokensOf(operands, ops)
    /\ parseInput' = [operands |-> operands, ops |-> ops]
    /\ lastOp' = [op |-> "Parser"]
    /\ nSteps' = nSteps + 1
    /\ UNCHANGED <<parsed, exceptParserVars>>

\* parser.parse()
Parse ==
    /\ parsed.t = "none"
    /\ tokens_ # <<>>
    /\ parsed' = parse(tokens_)
    /\ lastOp' = [op |-> "parse"]
    /\ nSteps' = nSteps + 1
    /\ UNCHANGED <<tokens_, parseInput, exceptParserVars>>

NextParser ==
    \/ /\ tokens_ = <<>>
       /\ \E n \in 0..MaxOperators :
         \E operands \in [1..n + 1 -> OperandNames], ops \in [1..n -> Operators] :
            ParserNew(operands, ops)
    \/ Parse

SpecParser == Init /\ [][NextParser]_vars

(***************************************************************************)
(* Properties of the parser.                                               *)
(***************************************************************************)
\* The six levels of binary operators, 1 binding loosest.
Level(op) ==
    CASE op = "OR" -> 1
      [] op = "AND" -> 2
      [] op \in {"EQ", "NEQ"} -> 3
      [] op \in {"LT", "GT", "LTE", "GTE"} -> 4
      [] op \in {"ADD", "SUB"} -> 5
      [] op \in {"MUL", "DIV", "MOD"} -> 6

\* The tree of each operand when a prefix operator binds tighter than any
\* binary operator and a call or field access binds tighter than a prefix
\* operator.
OperandTree ==
    [x |-> Identifier(X),
     negcall |-> UnaryOp("NEG", Call(FieldAccess(Identifier(X), F),
                                     <<IntLiteral(One)>>)),
     notgroup |-> UnaryOp("NOT", BinaryOp("OR", Identifier(X), IntLiteral(One)))]

\* The tree of operand1 op1 operand2 ... under the six levels with left
\* associativity: the root is the last operator of the loosest level present.
RECURSIVE TreeOf(_, _)
TreeOf(operands, ops) ==
    IF ops = <<>> THEN OperandTree[operands[1]]
    ELSE LET n == Len(ops)
             lowest == CHOOSE l \in 1..6 :
                          /\ \E i \in 1..n : Level(ops[i]) = l
                          /\ \A i \in 1..n : Level(ops[i]) >= l
             root == CHOOSE i \in 1..n :
                        /\ Level(ops[i]) = lowest
                        /\ \A j \in i + 1..n : Level(ops[j]) # lowest
         IN  BinaryOp(ops[root],
                      TreeOf(SubSeq(operands, 1, root), SubSeq(ops, 1, root - 1)),
                      TreeOf(SubSeq(operands, root + 1, n + 1),
                             SubSeq(ops, root + 1, n)))

\* C17: the parser reads operands joined by binary operators as one
\* expression, grouped by the six precedence levels (|| loosest, then &&,
\* == !=, < > <= >=, + -, * / % tightest), each level left-associative, with
\* prefix - and ! tighter than every binary operator and call and field
\* access tighter than the prefix operators.
C17_Precedence ==
    parsed.t # "none" =>
        /\ parsed.t = "Program"
        /\ parsed.declarations = <<TreeOf(parseInput.operands, parseInput.ops)>>

\* `x + -x.f(1) * x` was parsed.
C17_Witness ==
    /\ parsed.t = "Program"
    /\ parseInput.operands = <<"x", "negcall", "x">>
    /\ parseInput.ops = <<"ADD", "MUL">>
    /\ parsed.declarations[1].k = "BinaryOp"
    /\ parsed.declarations[1].op = "ADD"
    /\ parsed.declarations[1].right.k = "BinaryOp"
    /\ parsed.declarations[1].right.op = "MUL"
    /\ parsed.declarations[1].right.left.k = "UnaryOp"

(***************************************************************************)
(* The REPL (main.cpp): it reads a line, counts its brackets, appends it   *)
(* to the buffer and, when the counts are balanced, lexes, parses and      *)
(* evaluates the buffer with the evaluator that it keeps across inputs.    *)
(***************************************************************************)
\* Lexer::tokenize: the loop from position pos with the tokens read so far.
RECURSIVE tokenizeLoop(_, _, _)
tokenizeLoop(src, pos, toks) ==
    LET WithTok(tok) ==
            IF tok.t = "throw" THEN tok
            ELSE IF tok.type = "END_OF_FILE"
            THEN [t |-> "tokens",
                  tokens |-> Append(toks, [type |-> tok.type, value |-> tok.value])]
            ELSE tokenizeLoop(src, tok.pos,
                              Append(toks, [type |-> tok.type, value |-> tok.value]))
    IN  WithTok(nextToken(src, pos))

tokenize(src) == tokenizeLoop(src, 0, <<>>)

\* The std::string of a sequence of characters.
RECURSIVE StringOf(_)
StringOf(chars) == IF chars = <<>> THEN "" ELSE Head(chars) \o StringOf(Tail(chars))

\* The int64_t of a numeral.
RECURSIVE IntOf(_)
IntOf(num) ==
    IF num = <<>> THEN 0
    ELSE 10 * IntOf(SubSeq(num, 1, Len(num) - 1)) + DigitValue(num[Len(num)])

\* The expression that the parser built, with its names as strings and its
\* integer literals as integers, as the evaluator reads them.
RECURSIVE ExprOf(_)
ExprOf(e) ==
    CASE e.k = "IntLiteral" -> IntLiteral(IntOf(e.value))
      [] e.k = "Identifier" -> Identifier(StringOf(e.name))
      [] e.k = "LetExpr" -> LetExpr(StringOf(e.name), ExprOf(e.value), e.isConst)
      [] e.k = "Block" -> Block([i \in 1..Len(e.exprs) |-> ExprOf(e.exprs[i])])
      [] e.k = "ListExpr" -> ListExpr([i \in 1..Len(e.elements) |-> ExprOf(e.elements[i])])
      [] e.k = "TupleExpr" -> TupleExpr([i \in 1..Len(e.elements) |-> ExprOf(e.elements[i])])
      [] OTHER -> e

\* The lines that the user types.
Lines ==
    {<<>>,
     <<"e", "x", "i", "t">>,
     <<"l", "e", "t", " ", "x", " ", "=", " ", "1">>,
     <<"x">>,
     <<"y">>,
     <<"l", "e", "t", " ", "z", " ", "=", " ", "2", " ", "y">>,
     <<"(">>,
     <<")">>,
     <<"{">>,
     <<"}">>,
     <<"[">>,
     <<"]">>,
     <<"@">>,
     <<"+">>,
     LLONG_MAX \o <<"0">>}

Exit == <<"e", "x", "i", "t">>

\* How many characters of line are the character c.
RECURSIVE Count(_, _)
Count(line, c) ==
    IF line = <<>> THEN 0
    ELSE (IF Head(line) = c THEN 1 ELSE 0) + Count(Tail(line), c)

\* A loop that never prints the continuation prompt.
PromptAlwaysFresh(buf) == ">> "

\* The prompt that the top of the loop prints for a buffer.
PromptFor(buf) == IF buf = <<>> THEN ">> " ELSE ".. "

\* One iteration of the loop of repl() on a line read, up to the call of
\* evaluator.eval(program): an error of the lexer or the parser is caught
\* and printed in the same iteration.
ReplReadLine(line) ==
    /\ mode = "idle"
    /\ prompt # ""
    /\ nSteps < MaxLines
    /\ nSteps' = nSteps + 1
    /\ lastOp' = [op |-> "getline", line |-> line]
    /\ UNCHANGED exceptReplVars
    /\ IF buffer = <<>> /\ line = Exit
       THEN /\ prompt' = ""
            /\ shown' = Append(shown, [t |-> "text", what |-> "Goodbye!"])
            /\ UNCHANGED <<evaluatorVars, buffer, openBraces, openBrackets,
                           openParens, pending, attempts>>
       ELSE LET braces == openBraces + Count(line, "{") - Count(line, "}")
                brackets == openBrackets + Count(line, "[") - Count(line, "]")
                parens == openParens + Count(line, "(") - Count(line, ")")
                buf == buffer \o line \o <<"\n">>
                \* T: what lexer.tokenize() yields; P: what parser.parse() yields
                Try(T, P) ==
                    IF T.t = "throw"
                    THEN /\ shown' = Append(shown, [t |-> "error", what |-> T.what])
                         /\ buffer' = <<>>
                         /\ prompt' = PromptFor(buffer')
                         /\ UNCHANGED <<evaluatorVars, pending>>
                    ELSE IF P.t = "ParseError"
                    THEN /\ shown' = Append(shown, [t |-> "error", what |-> "ParseError"])
                         /\ buffer' = <<>>
                         /\ prompt' = PromptFor(buffer')
                         /\ UNCHANGED <<evaluatorVars, pending>>
                    ELSE /\ pending' = [i \in 1..Len(P.declarations) |->
                                          ExprDecl(ExprOf(P.declarations[i]))]
                         /\ mode' = "running"
                         /\ prog' = <<>>
                         /\ result' = makeUnit
                         /\ buffer' = buf
                         /\ UNCHANGED <<frames, env_, basePath_, moduleCache_,
                                        loadingModules_, stack, lastResult,
                                        lastErr, thrownIn, out, declRuns,
                                        prompt, shown>>
                Lexed(T) == Try(T, IF T.t = "throw" THEN T ELSE parse(T.tokens))
            IN  IF braces <= 0 /\ brackets <= 0 /\ parens <= 0
                THEN /\ openBraces' = 0
                     /\ openBrackets' = 0
                     /\ openParens' = 0
                     /\ attempts' = Append(attempts,
                            [buffer |-> buf, bindings |-> frames[env_].bindings_])
                     /\ Lexed(tokenize(buf))
                ELSE /\ openBraces' = braces
                     /\ openBrackets' = brackets
                     /\ openParens' = parens
                     /\ buffer' = buf
                     /\ prompt' = PromptFor(buffer')
                     /\ UNCHANGED <<evaluatorVars, pending, shown, attempts>>

\* std::getline fails: standard input is closed.
ReplEndOfInput ==
    /\ mode = "idle"
    /\ prompt # ""
    /\ prompt' = ""
    /\ shown' = Append(shown, [t |-> "text", what |-> "Goodbye!"])
    /\ lastOp' = [op |-> "eof"]
    /\ UNCHANGED <<evaluatorVars, nSteps, exceptReplVars, buffer, openBraces,
                   openBrackets, openParens, pending, attempts>>

\* eval(Program) evaluates the next declaration of the program parsed.
ReplEvalDecl ==
    /\ mode = "running"
    /\ stack = <<>>
    /\ pending # <<>>
    /\ EvalOneDecl(Head(pending), TRUE, stack)
    /\ pending' = Tail(pending)
    /\ prog' = Append(prog,
                      [d |-> Head(pending),
                       v |-> IF lastOp'.ok THEN lastOp'.v ELSE NoValue])
    /\ UNCHANGED <<lastResult, declRuns, nSteps, exceptReplVars, buffer,
                   openBraces, openBrackets, openParens, prompt, shown, attempts>>

\* eval(Program) returns: the REPL prints a result that is not unit, clears
\* the buffer and prompts.
ReplReturn ==
    /\ mode = "running"
    /\ stack = <<>>
    /\ pending = <<>>
    /\ mode' = "idle"
    /\ lastResult' = result
    /\ shown' = IF result.t = "unit" THEN shown
                ELSE Append(shown, [t |-> "result", what |-> result])
    /\ buffer' = <<>>
    /\ prompt' = PromptFor(buffer')
    /\ lastOp' = [op |-> "return", prog |-> prog]
    /\ UNCHANGED <<frames, env_, basePath_, moduleCache_, loadingModules_,
                   stack, prog, result, lastErr, thrownIn, out, declRuns,
                   nSteps, exceptReplVars, openBraces, openBrackets,
                   openParens, pending, attempts>>

\* A catch clause that ends the loop.
ReplCaughtExits ==
    /\ mode = "throwing"
    /\ stack = <<>>
    /\ mode' = "idle"
    /\ shown' = Append(shown, [t |-> "error", what |-> lastErr])
    /\ buffer' = <<>>
    /\ prompt' = ""
    /\ lastOp' = [op |-> "catch", err |-> lastErr]
    /\ UNCHANGED <<frames, env_, basePath_, moduleCache_, loadingModules_,
                   stack, prog, result, lastResult, lastErr, thrownIn, out,
                   declRuns, nSteps, exceptReplVars, openBraces, openBrackets,
                   openParens, pending, attempts>>

\* An exception leaves eval(Program): the REPL's catch clause prints it,
\* the buffer is cleared and the loop prompts.
ReplCaught ==
    /\ mode = "throwing"
    /\ stack = <<>>
    /\ mode' = "idle"
    /\ shown' = Append(shown, [t |-> "error", what |-> lastErr])
    /\ buffer' = <<>>
    /\ prompt' = PromptFor(buffer')
    /\ lastOp' = [op |-> "catch", err |-> lastErr]
    /\ UNCHANGED <<frames, env_, basePath_, moduleCache_, loadingModules_,
                   stack, prog, result, lastResult, lastErr, thrownIn, out,
                   declRuns, nSteps, exceptReplVars, openBraces, openBrackets,
                   openParens, pending, attempts>>

NextRepl ==
    \/ /\ mode = "idle"
       /\ \E line \in Lines : ReplReadLine(line)
    \/ ReplEndOfInput
    \/ ReplEvalDecl
    \/ ReplReturn
    \/ ReplCaught

SpecRepl == Init /\ [][NextRepl]_vars

(***************************************************************************)
(* Properties of the REPL.                                                 *)
(***************************************************************************)
\* The REPL has just read a line.
LineRead == lastOp'.op = "getline" /\ nSteps' = nSteps + 1

\* The number of c in line less the number of d.
RECURSIVE Net(_, _, _)
Net(line, c, d) ==
    IF line = <<>> THEN 0
    ELSE Net(Tail(line), c, d)
         + (IF Head(line) = c THEN 1 ELSE IF Head(line) = d THEN -1 ELSE 0)

\* What the line just read does: it is appended to the buffer and counted;
\* when the three counts are <= 0 the buffer is handed to the lexer, and
\* otherwise it is kept, nothing is evaluated and the loop prints `.. `.
LineRule ==
    LET line == lastOp'.line
        buf == buffer \o line \o <<"\n">>
        braces == openBraces + Net(line, "{", "}")
        brackets == openBrackets + Net(line, "[", "]")
        parens == openParens + Net(line, "(", ")")
    IN  IF braces <= 0 /\ brackets <= 0 /\ parens <= 0
        THEN /\ Len(attempts') = Len(attempts) + 1
             /\ attempts'[Len(attempts')].buffer = buf
        ELSE /\ attempts' = attempts
             /\ buffer' = buf
             /\ openBraces' = braces
             /\ openBrackets' = brackets
             /\ openParens' = parens
             /\ prompt' = ".. "
             /\ UNCHANGED evaluatorVars

\* An attempt to evaluate the buffer has just ended, with or without error.
AttemptEnds ==
    /\ Len(attempts') > Len(attempts) \/ mode # "idle"
    /\ mode' = "idle"

AfterAttempt ==
    AttemptEnds => /\ buffer' = <<>>
                   /\ openBraces' = 0 /\ openBrackets' = 0 /\ openParens' = 0

\* C18 as stated: every line read is appended to the buffer and counted; the
\* buffer is evaluated after exactly the lines on which the three counts are
\* <= 0; after every attempt the buffer is empty and the counts are 0;
\* after any other line nothing is evaluated and `.. ` is shown.
C18_EveryLine ==
    [][(LineRead => LineRule) /\ AfterAttempt]_vars

\* C18 for every line but `exit` at a fresh prompt, which ends the loop
\* without evaluating anything.
C18_LinesButExit ==
    [][/\ LineRead =>
            IF buffer = <<>> /\ lastOp'.line = Exit
            THEN attempts' = attempts /\ prompt' = "" /\ UNCHANGED evaluatorVars
            ELSE LineRule
       /\ AfterAttempt]_vars

\* `{`, `x` and `}` were read: the first two lines were kept, the third
\* balanced the braces and the three lines were evaluated together.
C18_Witness ==
    /\ nSteps = 3
    /\ mode = "idle"
    /\ Len(attempts) = 1
    /\ attempts[1].buffer = <<"{", "\n", "x", "\n", "}", "\n">>
    /\ buffer = <<>>
    /\ prompt = ">> "

\* The REPL has just printed an error.
ErrorShown ==
    /\ Len(shown') = Len(shown) + 1
    /\ shown'[Len(shown')].t = "error"

\* Whether the i-th declaration of the program under evaluation completed.
Completed(i) == prog[i].v.t # "nullopt"

\* The value that the completed `let` declarations of the program give to
\* name n, if any does.
BoundByProgram(n) ==
    \E i \in 1..Len(prog) : Completed(i) /\ prog[i].d.e.k = "LetExpr"
                            /\ prog[i].d.e.name = n

LastBinding(n) ==
    LET i == CHOOSE j \in 1..Len(prog) :
                /\ Completed(j) /\ prog[j].d.e.k = "LetExpr" /\ prog[j].d.e.name = n
                /\ \A h \in j + 1..Len(prog) :
                      ~(Completed(h) /\ prog[h].d.e.k = "LetExpr"
                        /\ prog[h].d.e.name = n)
    IN  prog[i].v

\* C19: when an error of the lexer, the parser or the evaluator is printed,
\* the loop goes on with a fresh prompt and an empty buffer, and the global
\* frame of the evaluator holds the bindings of the earlier inputs and those
\* of the declarations of this input that completed before the failing one.
C19_ErrorResumes ==
    [][ErrorShown =>
         LET before == attempts'[Len(attempts')].bindings
             after == frames'[env_'].bindings_
             lexed == mode = "idle"
         IN  /\ mode' = "idle"
             /\ prompt' = ">> "
             /\ buffer' = <<>>
             /\ env_' = env_
             /\ \A n \in DOMAIN before :
                   /\ n \in DOMAIN after
                   /\ lexed \/ ~BoundByProgram(n) => after[n] = before[n]
             /\ ~lexed =>
                   \A i \in 1..Len(prog) :
                      Completed(i) /\ prog[i].d.e.k = "LetExpr" =>
                         /\ prog[i].d.e.name \in DOMAIN after
                         /\ after[prog[i].d.e.name] = LastBinding(prog[i].d.e.name)]_vars

\* `let x = 1` was read, then `let z = 2 y`: y is undefined, the error was
\* printed, and x and z are bound.
C19_Witness ==
    /\ lastOp.op = "catch"
    /\ lastErr = "undefined-variable"
    /\ mode = "idle"
    /\ prompt = ">> "
    /\ {"x", "z"} \subseteq DOMAIN frames[env_].bindings_
    /\ frames[env_].bindings_["z"] = makeInt(2)

(***************************************************************************)
(* The type checker (typechecker.cpp, types.hpp) on integer and boolean    *)
(* literals, identifiers, `let`, lambdas and blocks.  Inferring these      *)
(* never unifies, so no type variable has an instance and find(t) is t.    *)
(* A TypeEnv is a value: extend() copies the parent.                       *)
(***************************************************************************)
makeTypeVar(id) == [t |-> "TypeVar", id |-> id]
makeIntType == [t |-> "IntType"]
makeBoolType == [t |-> "BoolType"]
makeUnitType == [t |-> "UnitType"]
makeFunctionType(paramTypes, returnType) ==
    [t |-> "FunctionType", paramTypes |-> paramTypes, returnType |-> returnType]
makeListType(elementType) == [t |-> "ListTypeT", elementType |-> elementType]
makeTupleType(elementTypes) == [t |-> "TupleTypeT", elementTypes |-> elementTypes]
makeGenericType(name) == [t |-> "GenericType", name |-> name]

\* typeVars is kept as a set: no scheme built here quantifies more than
\* one variable, so the order of the vector does not show.
TypeScheme(typeVars, type) == [typeVars |-> typeVars, type |-> type]

NoTypeEnv == [none |-> TRUE]
TypeEnvNew(parent) == [none |-> FALSE, bindings_ |-> EmptyMap, parent_ |-> parent]
TypeEnvDefineScheme(env, name, scheme) ==
    [env EXCEPT !.bindings_ = MapPut(@, name, scheme)]
TypeEnvDefine(env, name, type) == TypeEnvDefineScheme(env, name, TypeScheme({}, type))
TypeEnvExtend(env) == TypeEnvNew(env)

NoScheme == [typeVars |-> {}, type |-> [t |-> "nullopt"]]

RECURSIVE TypeEnvGetScheme(_, _)
TypeEnvGetScheme(env, name) ==
    IF env.none THEN NoScheme
    ELSE IF name \in DOMAIN env.bindings_ THEN env.bindings_[name]
    ELSE TypeEnvGetScheme(env.parent_, name)

\* freeTypeVars(TypePtr): it descends into function, list and tuple types.
RECURSIVE freeTypeVars(_)
freeTypeVars(type) ==
    CASE type.t = "TypeVar" -> {type.id}
      [] type.t = "FunctionType" ->
          UNION {freeTypeVars(type.paramTypes[i]) : i \in 1..Len(type.paramTypes)}
          \cup freeTypeVars(type.returnType)
      [] type.t = "ListTypeT" -> freeTypeVars(type.elementType)
      [] type.t = "TupleTypeT" ->
          UNION {freeTypeVars(type.elementTypes[i]) : i \in 1..Len(type.elementTypes)}
      [] OTHER -> {}

\* freeTypeVars(const TypeEnv&): `(void)env; return {};`
freeTypeVarsEnv(env) == {}

generalize(type, env) ==
    TypeScheme(freeTypeVars(type) \ freeTypeVarsEnv(env), type)

\* The type with the variables in the domain of subst replaced.
RECURSIVE inst(_, _)
inst(type, subst) ==
    CASE type.t = "TypeVar" ->
            IF type.id \in DOMAIN subst THEN subst[type.id] ELSE type
      [] type.t = "FunctionType" ->
            makeFunctionType([i \in 1..Len(type.paramTypes) |->
                                 inst(type.paramTypes[i], subst)],
                             inst(type.returnType, subst))
      [] type.t = "ListTypeT" -> makeListType(inst(type.elementType, subst))
      [] type.t = "TupleTypeT" ->
            makeTupleType([i \in 1..Len(type.elementTypes) |->
                              inst(type.elementTypes[i], subst)])
      [] OTHER -> type

\* instantiate with next as nextTypeVar_: the type, and nextTypeVar_ after.
instantiate(scheme, next) ==
    IF scheme.typeVars = {} THEN [type |-> scheme.type, next |-> next]
    ELSE LET v == CHOOSE v \in scheme.typeVars : TRUE
         IN  [type |-> inst(scheme.type, MapPut(EmptyMap, v, makeTypeVar(next))),
              next |-> next + 1]

Inferred(type, env, st) == [ok |-> TRUE, type |-> type, env |-> env, st |-> st]
ThrowTypeError(msg, st) == [ok |-> FALSE, err |-> msg, st |-> st]

RECURSIVE inferExpr(_, _, _)
RECURSIVE inferParams(_, _, _, _)
RECURSIVE inferSeq(_, _, _, _)

\* The parameter loop of the Lambda case: a fresh variable for each.
inferParams(params, env, st, paramTypes) ==
    IF params = <<>> THEN [env |-> env, st |-> st, paramTypes |-> paramTypes]
    ELSE inferParams(Tail(params),
                     TypeEnvDefine(env, Head(params), makeTypeVar(st.next)),
                     [st EXCEPT !.next = @ + 1],
                     Append(paramTypes, makeTypeVar(st.next)))

\* The loop of the Block case.
inferSeq(exprs, env, st, lastType) ==
    IF exprs = <<>> THEN Inferred(lastType, env, st)
    ELSE LET R == inferExpr(Head(exprs), env, st)
         IN  IF ~R.ok THEN R ELSE inferSeq(Tail(exprs), R.env, R.st, R.type)

\* inferExpr(expr, env) in the state st of the checker (nextTypeVar_ and the
\* record of the calls of generalize): the type, env as the call leaves it,
\* and the state after.
inferExpr(e, env, st) ==
    CASE e.k = "IntLiteral" -> Inferred(makeIntType, env, st)
      [] e.k = "BoolLiteral" -> Inferred(makeBoolType, env, st)
      [] e.k = "Identifier" ->
            LET scheme == TypeEnvGetScheme(env, e.name)
                I == instantiate(scheme, st.next)
            IN  IF scheme.type.t = "nullopt"
                THEN ThrowTypeError("Undefined variable", st)
                ELSE Inferred(I.type, env, [st EXCEPT !.next = I.next])
      [] e.k = "LetExpr" ->
            LET V == inferExpr(e.value, env, st)
                scheme == generalize(V.type, V.env)
            IN  IF ~V.ok THEN V
                ELSE Inferred(V.type, TypeEnvDefineScheme(V.env, e.name, scheme),
                              [V.st EXCEPT !.calls =
                                  Append(@, [type |-> V.type, env |-> V.env,
                                             scheme |-> scheme])])
      [] e.k = "Lambda" ->
            LET P == inferParams(e.params, TypeEnvExtend(env), st, <<>>)
                B == inferExpr(e.body, P.env, P.st)
            IN  IF ~B.ok THEN B
                ELSE Inferred(makeFunctionType(P.paramTypes, B.type), env, B.st)
      [] e.k = "Block" ->
            LET B == inferSeq(e.exprs, TypeEnvExtend(env), st, makeUnitType)
            IN  IF ~B.ok THEN B ELSE Inferred(B.type, env, B.st)

\* The environment that TypeChecker::TypeChecker() sets up, with print for
\* the built-ins.
CheckerEnv ==
    TypeEnvDefine(TypeEnvNew(NoTypeEnv), "print",
                  makeFunctionType(<<makeGenericType("a")>>, makeUnitType))

(***************************************************************************)
(* Specification of the type checker: infer is called on a lambda whose    *)
(* body is a block of `let` bindings followed by an identifier.            *)
(***************************************************************************)
ParamLists == {<<"x">>, <<"y">>, <<"x", "y">>}
LetNames == {"a", "x"}
LetValues ==
    {IntLiteral(1), Identifier("x"), Identifier("y"), Identifier("a"),
     Lambda(<<"z">>, Identifier("z"))}
LastExprs == {Identifier("a"), Identifier("x"), BoolLiteral(TRUE)}

LetSeqs ==
    UNION {[1..n -> {LetExpr(name, value, FALSE) :
                        name \in LetNames, value \in LetValues}] :
           n \in 0..MaxLets}

\* TypeChecker::infer(expr)
Infer(e) ==
    /\ inferred.t = "none"
    /\ LET R == inferExpr(e, CheckerEnv, [next |-> nextTypeVar_, calls |-> <<>>])
       IN  /\ inferred' = IF R.ok THEN [t |-> "type", type |-> R.type]
                          ELSE [t |-> "TypeError", err |-> R.err]
           /\ nextTypeVar_' = R.st.next
           /\ generalized' = R.st.calls
           /\ UNCHANGED typeHeap
    /\ lastOp' = [op |-> "infer", e |-> e]
    /\ nSteps' = nSteps + 1
    /\ UNCHANGED exceptCheckerVars

NextChecker ==
    /\ inferred.t = "none"
    /\ \E params \in ParamLists, lets \in LetSeqs, last \in LastExprs :
          Infer(Lambda(params, Block(lets \o <<last>>)))

SpecChecker == Init /\ [][NextChecker]_vars

(***************************************************************************)
(* Properties of the type checker.                                         *)
(***************************************************************************)
\* The type variables that occur in a type.
RECURSIVE VarsOf(_)
VarsOf(type) ==
    CASE type.t = "TypeVar" -> {type.id}
      [] type.t = "FunctionType" ->
          UNION {VarsOf(type.paramTypes[i]) : i \in 1..Len(type.paramTypes)}
          \cup VarsOf(type.returnType)
      [] type.t = "ListTypeT" -> VarsOf(type.elementType)
      [] type.t = "TupleTypeT" ->
          UNION {VarsOf(type.elementTypes[i]) : i \in 1..Len(type.elementTypes)}
      [] OTHER -> {}

\* The type variables that are free in some binding of env or of one of its
\* ancestors: those of the binding's type that its scheme does not quantify.
RECURSIVE FreeInEnv(_)
FreeInEnv(env) ==
    IF env.none THEN {}
    ELSE UNION {VarsOf(env.bindings_[n].type) \ env.bindings_[n].typeVars :
                  n \in DOMAIN env.bindings_}
         \cup FreeInEnv(env.parent_)

\* C20: every scheme that generalize(t, env) returns quantifies exactly the
\* type variables that are free in t and not free in a binding of env; so a
\* `let` in the body of a lambda does not quantify the type variable of a
\* parameter of the lambda.
C20_Generalize ==
    \A i \in 1..Len(generalized) :
        generalized[i].scheme.typeVars =
            VarsOf(generalized[i].type) \ FreeInEnv(generalized[i].env)

(***************************************************************************)
(* Unification (typechecker.cpp, types.hpp).  Type objects live in         *)
(* typeHeap; the fields of a type that are TypePtr hold addresses, so that *)
(* `t1.get() == t2.get()` and the assignment to TypeVar::instance are what *)
(* they are in the source.  Float and string types are left out.           *)
(***************************************************************************)
TypeVar(id, instance) == [t |-> "TypeVar", id |-> id, instance |-> instance]
makeRecordType(fields) == [t |-> "RecordTypeT", fields |-> fields]
makeMapType(keyType, valueType) ==
    [t |-> "MapTypeT", keyType |-> keyType, valueType |-> valueType]
makeADTType(name, typeArgs) ==
    [t |-> "ADTType", name |-> name, typeArgs |-> typeArgs]

\* std::make_shared<Type>(type): the address of the new object is the next
\* free one.
NewType(h) == Len(h) + 1

\* TypeChecker::find with its path compression: the representative p of t
\* and the heap h after.
RECURSIVE find(_, _)
find(h, t) ==
    IF h[t].t = "TypeVar" /\ h[t].instance # 0
    THEN LET WithR(R) == [p |-> R.p, h |-> [R.h EXCEPT ![t].instance = R.p]]
         IN  WithR(find(h, h[t].instance))
    ELSE [p |-> t, h |-> h]

\* TypeChecker::occursIn: what it returns, b, and the heap after its calls
\* of find.  It descends into function, list and tuple types.
RECURSIVE occursIn(_, _, _)
RECURSIVE occursInAny(_, _, _)
occursIn(h, varId, t) ==
    LET WithF(Fd) ==
            LET type == Fd.h[Fd.p]
            IN  CASE type.t = "TypeVar" -> [b |-> type.id = varId, h |-> Fd.h]
                  [] type.t = "FunctionType" ->
                        LET WithP(P) ==
                                IF P.b THEN P
                                ELSE occursIn(P.h, varId, type.returnType)
                        IN  WithP(occursInAny(Fd.h, varId, type.paramTypes))
                  [] type.t = "ListTypeT" -> occursIn(Fd.h, varId, type.elementType)
                  [] type.t = "TupleTypeT" ->
                        occursInAny(Fd.h, varId, type.elementTypes)
                  [] OTHER -> [b |-> FALSE, h |-> Fd.h]
    IN  WithF(find(h, t))

\* `for (param : types) if (occursIn(varId, param)) return true;`
occursInAny(h, varId, types) ==
    IF types = <<>> THEN [b |-> FALSE, h |-> h]
    ELSE LET WithO(O) == IF O.b THEN O ELSE occursInAny(O.h, varId, Tail(types))
         IN  WithO(occursIn(h, varId, Head(types)))

Unified(h) == [ok |-> TRUE, err |-> "", h |-> h]
ThrowUnify(msg, h) == [ok |-> FALSE, err |-> msg, h |-> h]

\* TypeChecker::unify: whether it returned or threw, and the heap after.
RECURSIVE unify(_, _, _)
RECURSIVE unifyAll(_, _, _)
unify(h0, a, b) ==
    LET Resolved(h, t1, t2) ==
            LET type1 == h[t1]
                type2 == h[t2]
            IN  IF t1 = t2 THEN Unified(h)
                ELSE IF type1.t = "TypeVar"
                THEN LET WithO(O) ==
                             IF O.b THEN ThrowUnify("Infinite type", O.h)
                             ELSE Unified([O.h EXCEPT ![t1].instance = t2])
                     IN  WithO(occursIn(h, type1.id, t2))
                ELSE IF type2.t = "TypeVar"
                THEN LET WithO(O) ==
                             IF O.b THEN ThrowUnify("Infinite type", O.h)
                             ELSE Unified([O.h EXCEPT ![t2].instance = t1])
                     IN  WithO(occursIn(h, type2.id, t1))
                ELSE IF type1.t = "IntType" /\ type2.t = "IntType" THEN Unified(h)
                ELSE IF type1.t = "BoolType" /\ type2.t = "BoolType" THEN Unified(h)
                ELSE IF type1.t = "UnitType" /\ type2.t = "UnitType" THEN Unified(h)
                ELSE IF type1.t = "FunctionType" /\ type2.t = "FunctionType"
                THEN IF Len(type1.paramTypes) # Len(type2.paramTypes)
                     THEN ThrowUnify("Function arity mismatch", h)
                     ELSE LET WithP(P) ==
                                  IF ~P.ok THEN P
                                  ELSE unify(P.h, type1.returnType, type2.returnType)
                          IN  WithP(unifyAll(h, type1.paramTypes, type2.paramTypes))
                ELSE IF type1.t = "ListTypeT" /\ type2.t = "ListTypeT"
                THEN unify(h, type1.elementType, type2.elementType)
                ELSE IF type1.t = "TupleTypeT" /\ type2.t = "TupleTypeT"
                THEN IF Len(type1.elementTypes) # Len(type2.elementTypes)
                     THEN ThrowUnify("Tuple size mismatch", h)
                     ELSE unifyAll(h, type1.elementTypes, type2.elementTypes)
                ELSE IF type1.t = "GenericType" \/ type2.t = "GenericType"
                THEN Unified(h)
                ELSE ThrowUnify("Cannot unify", h)
        With1(F1) ==
            LET With2(F2) == Resolved(F2.h, F1.p, F2.p)
            IN  With2(find(F1.h, b))
    IN  With1(find(h0, a))

\* `for (i...) unify(types1[i], types2[i]);`
unifyAll(h, types1, types2) ==
    IF types1 = <<>> THEN Unified(h)
    ELSE LET WithU(U) ==
                 IF ~U.ok THEN U ELSE unifyAll(U.h, Tail(types1), Tail(types2))
         IN  WithU(unify(h, Head(types1), Head(types2)))

(***************************************************************************)
(* inferExpr on literals: integer and boolean literals, constructor calls  *)
(* and list, tuple, record and map literals of them.  The state st of the  *)
(* checker is [h, next]: the type heap and nextTypeVar_.  An inference     *)
(* yields [ok, err, type, st], type the address of the type returned.      *)
(***************************************************************************)
ConstructorCall(typeName, ctorName, args) ==
    [k |-> "ConstructorCall", typeName |-> typeName, ctorName |-> ctorName,
     args |-> args]

InferredAt(type, st) == [ok |-> TRUE, err |-> "", type |-> type, st |-> st]
ThrowInfer(msg, st) == [ok |-> FALSE, err |-> msg, type |-> 0, st |-> st]

\* `return make...Type(...)`: the new object and its address.
Allocate(type, st) ==
    InferredAt(NewType(st.h), [st EXCEPT !.h = Append(@, type)])

\* TypeChecker::freshTypeVar
freshTypeVar(st) ==
    InferredAt(NewType(st.h),
               [st EXCEPT !.h = Append(@, TypeVar(st.next, 0)),
                          !.next = @ + 1])

RECURSIVE inferLiteral(_, _)
RECURSIVE inferElements(_, _, _)
RECURSIVE inferListRest(_, _, _)
RECURSIVE inferFields(_, _, _)
RECURSIVE inferEntriesRest(_, _, _, _)

\* `for elem in elements: elemTypes.push_back(inferExpr(elem, env))`
inferElements(elements, st, elemTypes) ==
    IF elements = <<>> THEN [ok |-> TRUE, err |-> "", types |-> elemTypes, st |-> st]
    ELSE LET WithE(E) ==
                 IF ~E.ok THEN E
                 ELSE inferElements(Tail(elements), E.st, Append(elemTypes, E.type))
         IN  WithE(inferLiteral(Head(elements), st))

\* `for i >= 1: unify(elemType, inferExpr(elements[i], env))`
inferListRest(elements, elemType, st) ==
    IF elements = <<>> THEN InferredAt(elemType, st)
    ELSE LET WithE(E) ==
                 IF ~E.ok THEN E
                 ELSE LET WithU(U) ==
                              IF ~U.ok THEN ThrowInfer(U.err, [E.st EXCEPT !.h = U.h])
                              ELSE inferListRest(Tail(elements), elemType,
                                                 [E.st EXCEPT !.h = U.h])
                      IN  WithU(unify(E.st.h, elemType, E.type))
         IN  WithE(inferLiteral(Head(elements), st))

\* `for (name, expr) in fields: fieldTypes[name] = inferExpr(expr, env)`
inferFields(fields, st, fieldTypes) ==
    IF fields = <<>> THEN [ok |-> TRUE, err |-> "", types |-> fieldTypes, st |-> st]
    ELSE LET WithE(E) ==
                 IF ~E.ok THEN E
                 ELSE inferFields(Tail(fields), E.st,
                                  MapPut(fieldTypes, Head(fields)[1], E.type))
         IN  WithE(inferLiteral(Head(fields)[2], st))

\* `for i >= 1: unify(keyType, inferExpr(key_i)); unify(valueType,
\* inferExpr(value_i))`
inferEntriesRest(entries, keyType, valueType, st) ==
    IF entries = <<>> THEN InferredAt(keyType, st)
    ELSE LET WithK(K) ==
                 IF ~K.ok THEN K
                 ELSE LET WithUK(UK) ==
                              IF ~UK.ok
                              THEN ThrowInfer(UK.err, [K.st EXCEPT !.h = UK.h])
                              ELSE LET WithV(V) ==
                                           IF ~V.ok THEN V
                                           ELSE LET WithUV(UV) ==
                                                        IF ~UV.ok
                                                        THEN ThrowInfer(UV.err,
                                                               [V.st EXCEPT !.h = UV.h])
                                                        ELSE inferEntriesRest(
                                                               Tail(entries), keyType,
                                                               valueType,
                                                               [V.st EXCEPT !.h = UV.h])
                                                IN  WithUV(unify(V.st.h, valueType,
                                                                 V.type))
                                   IN  WithV(inferLiteral(Head(entries)[2],
                                                          [K.st EXCEPT !.h = UK.h]))
                      IN  WithUK(unify(K.st.h, keyType, K.type))
         IN  WithK(inferLiteral(Head(entries)[1], st))

inferLiteral(e, st) ==
    CASE e.k = "IntLiteral" -> Allocate(makeIntType, st)
      [] e.k = "BoolLiteral" -> Allocate(makeBoolType, st)
      [] e.k = "ConstructorCall" -> Allocate(makeADTType(e.typeName, <<>>), st)
      [] e.k = "ListExpr" ->
            IF e.elements = <<>>
            THEN LET WithV(V) == Allocate(makeListType(V.type), V.st)
                 IN  WithV(freshTypeVar(st))
            ELSE LET WithF(First) ==
                         IF ~First.ok THEN First
                         ELSE LET WithR(R) ==
                                      IF ~R.ok THEN R
                                      ELSE Allocate(makeListType(First.type), R.st)
                              IN  WithR(inferListRest(Tail(e.elements), First.type, First.st))
                 IN  WithF(inferLiteral(Head(e.elements), st))
      [] e.k = "TupleExpr" ->
            LET WithE(E) ==
                    IF ~E.ok THEN ThrowInfer(E.err, E.st)
                    ELSE Allocate(makeTupleType(E.types), E.st)
            IN  WithE(inferElements(e.elements, st, <<>>))
      [] e.k = "RecordExpr" ->
            LET WithE(E) ==
                    IF ~E.ok THEN ThrowInfer(E.err, E.st)
                    ELSE Allocate(makeRecordType(E.types), E.st)
            IN  WithE(inferFields(e.fields, st, EmptyMap))
      [] e.k = "MapExpr" ->
            IF e.entries = <<>>
            THEN \* `makeMapType(freshTypeVar(), freshTypeVar())`: the two
                 \* arguments are evaluated in either order.
                 LET WithA(A) ==
                         LET WithB(B) ==
                                 IF st.keyFirst
                                 THEN Allocate(makeMapType(A.type, B.type), B.st)
                                 ELSE Allocate(makeMapType(B.type, A.type), B.st)
                         IN  WithB(freshTypeVar(A.st))
                 IN  WithA(freshTypeVar(st))
            ELSE LET WithK(K) ==
                         IF ~K.ok THEN K
                         ELSE LET WithV(V) ==
                                      IF ~V.ok THEN V
                                      ELSE LET WithR(R) ==
                                                   IF ~R.ok THEN R
                                                   ELSE Allocate(
                                                          makeMapType(K.type, V.type),
                                                          R.st)
                                           IN  WithR(inferEntriesRest(
                                                       Tail(e.entries), K.type,
                                                       V.type, V.st))
                              IN  WithV(inferLiteral(Head(e.entries)[2], K.st))
                 IN  WithK(inferLiteral(Head(e.entries)[1], st))

(***************************************************************************)
(* Specification of unification: types are constructed over the types      *)
(* already on the heap, unify is called on any two of them, and infer is   *)
(* called on a literal by a checker that has built no type yet.            *)
(***************************************************************************)
\* The types that one make...Type call can build over the addresses 1..n.
TypesOver(n) ==
    {makeIntType, makeBoolType}
    \cup {makeListType(p) : p \in 1..n}
    \cup {makeTupleType(<<p>>) : p \in 1..n}
    \cup {makeFunctionType(<<p>>, p) : p \in 1..n}
    \cup {makeRecordType(MapPut(EmptyMap, "a", p)) : p \in 1..n}
    \cup {makeMapType(p, p) : p \in 1..n}
    \cup {makeADTType("Option", <<p>>) : p \in 1..n}

RecordLiteral(name, n) == RecordExpr(<<<<name, IntLiteral(n)>>>>)

Literals ==
    {ListExpr(<<>>),
     ListExpr(<<IntLiteral(1), IntLiteral(2)>>),
     ListExpr(<<IntLiteral(1), BoolLiteral(TRUE)>>),
     ListExpr(<<RecordLiteral("a", 1), RecordLiteral("a", 2)>>),
     ListExpr(<<RecordLiteral("a", 1), RecordLiteral("b", 2)>>),
     ListExpr(<<ListExpr(<<IntLiteral(1)>>), ListExpr(<<>>)>>),
     ListExpr(<<TupleExpr(<<IntLiteral(1), BoolLiteral(TRUE)>>),
                TupleExpr(<<IntLiteral(2), BoolLiteral(FALSE)>>)>>),
     ListExpr(<<MapExpr(<<<<IntLiteral(1), BoolLiteral(TRUE)>>>>),
                MapExpr(<<<<IntLiteral(2), BoolLiteral(FALSE)>>>>)>>),
     ListExpr(<<ConstructorCall("Option", "None", <<>>),
                ConstructorCall("Option", "None", <<>>)>>),
     MapExpr(<<<<IntLiteral(1), RecordLiteral("a", 1)>>,
               <<IntLiteral(2), RecordLiteral("a", 2)>>>>),
     MapExpr(<<>>)}

\* freshTypeVar()
FreshTypeVar ==
    /\ typeHeap' = Append(typeHeap, TypeVar(nextTypeVar_, 0))
    /\ nextTypeVar_' = nextTypeVar_ + 1
    /\ lastOp' = [op |-> "freshTypeVar"]
    /\ UNCHANGED <<inferred, generalized, nSteps, exceptCheckerVars>>

\* make...Type(...)
MakeType(type) ==
    /\ typeHeap' = Append(typeHeap, type)
    /\ lastOp' = [op |-> "makeType"]
    /\ UNCHANGED <<inferred, nextTypeVar_, generalized, nSteps, exceptCheckerVars>>

\* unify(t1, t2)
Unify(t1, t2) ==
    /\ LET WithU(U) ==
               /\ typeHeap' = U.h
               /\ lastOp' = [op |-> "unify", t1 |-> t1, t2 |-> t2,
                             before |-> typeHeap, ok |-> U.ok, err |-> U.err]
       IN  WithU(unify(typeHeap, t1, t2))
    /\ nSteps' = nSteps + 1
    /\ UNCHANGED <<inferred, nextTypeVar_, generalized, exceptCheckerVars>>

\* infer(expr) on a literal
InferLiteral(e, keyFirst) ==
    /\ LET WithR(R) ==
               /\ inferred' = IF R.ok THEN [t |-> "type", type |-> R.type]
                              ELSE [t |-> "TypeError", err |-> R.err]
               /\ typeHeap' = R.st.h
               /\ nextTypeVar_' = R.st.next
       IN  WithR(inferLiteral(e, [h |-> typeHeap, next |-> nextTypeVar_,
                                     keyFirst |-> keyFirst]))
    /\ lastOp' = [op |-> "inferLiteral", e |-> e]
    /\ UNCHANGED <<generalized, nSteps, exceptCheckerVars>>

NextUnify ==
    \/ /\ Len(typeHeap) < MaxTypes
       /\ inferred.t = "none"
       /\ FreshTypeVar
    \/ /\ Len(typeHeap) < MaxTypes
       /\ inferred.t = "none"
       /\ \E type \in TypesOver(Len(typeHeap)) : MakeType(type)
    \/ /\ nSteps < MaxUnify
       /\ \E t1, t2 \in 1..Len(typeHeap) : Unify(t1, t2)
    \/ /\ typeHeap = <<>>
       /\ inferred.t = "none"
       /\ \E e \in Literals, keyFirst \in BOOLEAN : InferLiteral(e, keyFirst)

SpecUnify == Init /\ [][NextUnify]_vars

(***************************************************************************)
(* Properties of unification.                                              *)
(***************************************************************************)
\* The addresses that a type object holds.
Held(type) ==
    CASE type.t = "TypeVar" -> {type.instance} \ {0}
      [] type.t = "FunctionType" ->
            {type.paramTypes[i] : i \in 1..Len(type.paramTypes)}
            \cup {type.returnType}
      [] type.t = "ListTypeT" -> {type.elementType}
      [] type.t = "TupleTypeT" ->
            {type.elementTypes[i] : i \in 1..Len(type.elementTypes)}
      [] type.t = "RecordTypeT" -> {type.fields[n] : n \in DOMAIN type.fields}
      [] type.t = "MapTypeT" -> {type.keyType, type.valueType}
      [] type.t = "ADTType" -> {type.typeArgs[i] : i \in 1..Len(type.typeArgs)}
      [] OTHER -> {}

\* The addresses reached from the set S of addresses, S included, in at most
\* n steps.
RECURSIVE Reached(_, _, _)
Reached(h, S, n) ==
    IF n = 0 THEN S
    ELSE Reached(h, S \cup UNION {Held(h[p]) : p \in S}, n - 1)

\* Whether the type at p contains itself.
ContainsItself(h, p) == p \in Reached(h, Held(h[p]), Len(h))

\* C21: unification never binds a type variable to a type that contains the
\* variable, at any depth and in any position (function, list, tuple,
\* record, map, ADT argument): no type on the heap contains itself.
C21_NoInfiniteType ==
    \A p \in 1..Len(typeHeap) : ~ContainsItself(typeHeap, p)

\* The type that the address p stands for: the end of its chain of instances.
RECURSIVE Resolve(_, _)
Resolve(h, p) ==
    IF h[p].t = "TypeVar" /\ h[p].instance # 0 THEN Resolve(h, h[p].instance)
    ELSE p

\* Whether the types at a and b have the same structure: the same
\* constructor, the same arity or field set, and parts of the same structure,
\* compared to the depth n.
RECURSIVE SameStructure(_, _, _, _)
SameStructure(h, a, b, n) ==
    LET x == h[Resolve(h, a)]
        y == h[Resolve(h, b)]
        SameAll(xs, ys) ==
            /\ Len(xs) = Len(ys)
            /\ \A i \in 1..Len(xs) : SameStructure(h, xs[i], ys[i], n - 1)
    IN  /\ n > 0
        /\ x.t = y.t
        /\ CASE x.t = "TypeVar" -> x.id = y.id
             [] x.t = "FunctionType" ->
                   /\ SameAll(x.paramTypes, y.paramTypes)
                   /\ SameStructure(h, x.returnType, y.returnType, n - 1)
             [] x.t = "ListTypeT" ->
                   SameStructure(h, x.elementType, y.elementType, n - 1)
             [] x.t = "TupleTypeT" -> SameAll(x.elementTypes, y.elementTypes)
             [] x.t = "RecordTypeT" ->
                   /\ DOMAIN x.fields = DOMAIN y.fields
                   /\ \A f \in DOMAIN x.fields :
                          SameStructure(h, x.fields[f], y.fields[f], n - 1)
             [] x.t = "MapTypeT" ->
                   /\ SameStructure(h, x.keyType, y.keyType, n - 1)
                   /\ SameStructure(h, x.valueType, y.valueType, n - 1)
             [] x.t = "ADTType" ->
                   /\ x.name = y.name
                   /\ SameAll(x.typeArgs, y.typeArgs)
             [] OTHER -> TRUE

\* The list literals whose elements are literals of one structure.
SameShapeLists ==
    {ListExpr(<<IntLiteral(1), IntLiteral(2)>>),
     ListExpr(<<RecordLiteral("a", 1), RecordLiteral("a", 2)>>),
     ListExpr(<<TupleExpr(<<IntLiteral(1), BoolLiteral(TRUE)>>),
                TupleExpr(<<IntLiteral(2), BoolLiteral(FALSE)>>)>>),
     ListExpr(<<MapExpr(<<<<IntLiteral(1), BoolLiteral(TRUE)>>>>),
                MapExpr(<<<<IntLiteral(2), BoolLiteral(FALSE)>>>>)>>),
     ListExpr(<<ConstructorCall("Option", "None", <<>>),
                ConstructorCall("Option", "None", <<>>)>>)}

\* C30: unifying two separately constructed types of identical structure
\* succeeds, whatever their shape (primitive, function, list, tuple, record,
\* map, named ADT), so a list literal whose elements are literals of one
\* structure, such as two record literals with the same fields, is given a
\* list type.
C30_SameStructureUnifies ==
    /\ lastOp.op = "unify" =>
           (SameStructure(lastOp.before, lastOp.t1, lastOp.t2,
                          Len(lastOp.before)) => lastOp.ok)
    /\ lastOp.op = "inferLiteral" =>
           (lastOp.e \in SameShapeLists =>
                /\ inferred.t = "type"
                /\ typeHeap[inferred.type].t = "ListTypeT")

(***************************************************************************)
(* Properties of the module loader's bookkeeping.                          *)
(***************************************************************************)
\* The module names whose loadModule call is on the call stack.
OnCallStack == {stack[i].name : i \in 1..Len(stack)}

\* C22: a module name is in loadingModules_ exactly while a loadModule call
\* for it is on the call stack; once the call has exited, by returning or
\* by any error (unreadable file, lexer error, parse error, runtime error),
\* the name is no longer in the set.
C22_LoadingIffOnStack == loadingModules_ = OnCallStack

\* C23: an import fails with the cyclic-import error only if a load of that
\* module is in progress at the time of the import; an import of a module
\* whose earlier load failed and was unwound is attempted afresh.
C23_CyclicOnlyInProgress ==
    (lastOp.op = "loadModule" /\ lastOp.exit = "cyclic-import")
        => lastOp.name \in OnCallStack

\* The exits of loadModule.
LoadExits ==
    {"cached", "cannot-find-module", "cannot-read-module", "lexer-error",
     "parse-error", "cyclic-import", "rethrow", "loaded"}

\* A step in which a loadModule call exits: in the step of the import
\* itself, or later, when its activation leaves the call stack.
LoadModuleExits ==
    /\ lastOp'.op = "loadModule"
    /\ lastOp'.exit \in LoadExits

\* C24: loadModule leaves basePath_ and env_ as they were when it was
\* called, on every exit: cache hit, module not found, unreadable file,
\* lexer or parse error, runtime error in the module, and success.
C24_LoadModuleRestores ==
    [][LoadModuleExits =>
         IF Len(stack') < Len(stack)
         THEN /\ basePath_' = Top.oldBasePath
              /\ env_' = Top.oldEnv
         ELSE /\ basePath_' = basePath_
              /\ env_' = env_]_vars

\* The load of I, a file in stdlib, has failed with a runtime error after
\* its import of C succeeded.
C24_Witness ==
    /\ lastOp.op = "loadModule"
    /\ lastOp.exit = "rethrow"
    /\ lastOp.name = "I"
    /\ "C" \in DOMAIN moduleCache_
    /\ basePath_ = ""
    /\ env_ = 1

\* The environments that loadModule has created for modules: those of the
\* loads in progress and those in the cache.
ModuleEnvs ==
    {stack[i].moduleEnv : i \in 1..Len(stack)}
    \cup {moduleCache_[m] : m \in DOMAIN moduleCache_}

\* The evaluator's root environment: the one it was constructed with.
RootEnv == 1

\* C25: every module environment that loadModule creates is a direct child
\* of the evaluator's root environment, whether the import is in the main
\* program or in a module that is being loaded: no module environment has
\* another module's environment as its parent.
C25_ModuleEnvChildOfRoot ==
    \A e \in ModuleEnvs :
        /\ frames[e].parent_ = RootEnv
        /\ frames[e].parent_ \notin ModuleEnvs

(***************************************************************************)
(* Specification of the Environment class (environment.cpp): frames are    *)
(* extended and names defined in them, and then set is called on a frame.  *)
(***************************************************************************)
EnvNames == {"x", "y"}

\* env->extend()
Extend(e) ==
    /\ frames' = EnvExtend(frames, e)
    /\ nSteps' = nSteps + 1
    /\ lastOp' = [op |-> "extend", env |-> e]
    /\ UNCHANGED <<env_, basePath_, moduleCache_, loadingModules_, stack, mode,
                   prog, result, lastResult, lastErr, thrownIn, out, declRuns,
                   otherVars>>

\* env->define(name, value, isConst)
Define(e, name, value, isConst) ==
    /\ LET WithD(D) ==
               /\ frames' = D.fr
               /\ lastOp' = [op |-> "define", env |-> e, name |-> name,
                             ok |-> D.ok]
       IN  WithD(EnvDefine(frames, e, name, value, isConst))
    /\ nSteps' = nSteps + 1
    /\ UNCHANGED <<env_, basePath_, moduleCache_, loadingModules_, stack, mode,
                   prog, result, lastResult, lastErr, thrownIn, out, declRuns,
                   otherVars>>

\* env->set(name, value, loc)
Set(e, name, value) ==
    /\ LET WithS(S) ==
               /\ frames' = S.fr
               /\ lastOp' = [op |-> "set", env |-> e, name |-> name,
                             value |-> value, fr |-> frames, ok |-> S.ok,
                             err |-> S.err]
       IN  WithS(EnvSet(frames, e, name, value))
    /\ UNCHANGED <<env_, basePath_, moduleCache_, loadingModules_, stack, mode,
                   prog, result, lastResult, lastErr, thrownIn, out, declRuns,
                   nSteps, otherVars>>

NextEnv ==
    \/ /\ nSteps < MaxEnvOps
       /\ lastOp.op # "set"
       /\ \E e \in 1..Len(frames) : Extend(e)
    \/ /\ nSteps < MaxEnvOps
       /\ lastOp.op # "set"
       /\ \E e \in 1..Len(frames), name \in EnvNames, isConst \in BOOLEAN :
              Define(e, name, makeInt(1), isConst)
    \/ /\ lastOp.op # "set"
       /\ \E e \in 1..Len(frames), name \in EnvNames : Set(e, name, makeInt(2))

SpecEnv == Init /\ [][NextEnv]_vars

\* The first frame on the chain from e that binds name, 0 if there is none.
RECURSIVE NearestFrame(_, _, _)
NearestFrame(fr, e, name) ==
    IF name \in DOMAIN fr[e].bindings_ THEN e
    ELSE IF fr[e].parent_ # 0 THEN NearestFrame(fr, fr[e].parent_, name)
    ELSE 0

\* The heap fr with the one binding of name in frame f holding value.
OneBindingChanged(fr, f, name, value) ==
    [g \in 1..Len(fr) |->
        IF g # f THEN fr[g]
        ELSE [fr[g] EXCEPT !.bindings_ =
                 [n \in DOMAIN fr[g].bindings_ |->
                     IF n = name THEN value ELSE fr[g].bindings_[n]]]]

\* C26 as stated: set changes the binding of the name in the nearest frame
\* that has one and nothing else, and fails with the undefined-variable
\* error, changing nothing, when no frame on the chain binds the name.
C26_SetChangesNearest ==
    lastOp.op = "set" =>
        LET f == NearestFrame(lastOp.fr, lastOp.env, lastOp.name)
        IN  IF f # 0
            THEN /\ lastOp.ok
                 /\ frames = OneBindingChanged(lastOp.fr, f, lastOp.name,
                                               lastOp.value)
                 /\ EnvGet(frames, lastOp.env, lastOp.name) = lastOp.value
            ELSE /\ ~lastOp.ok
                 /\ lastOp.err = "undefined-variable"
                 /\ frames = lastOp.fr

\* C26: set changes the binding of the name in the nearest frame that has
\* one and nothing else (no other frame, no other name, no const set), and a
\* later get of the name from the same frame returns the value set; it
\* fails, changing nothing, with the undefined-variable error when no frame
\* on the chain binds the name, and with the const-reassignment error when
\* the nearest frame that binds the name marks it const.
C26_SetChangesNearestUnlessConst ==
    lastOp.op = "set" =>
        LET f == NearestFrame(lastOp.fr, lastOp.env, lastOp.name)
        IN  IF f = 0
            THEN /\ ~lastOp.ok
                 /\ lastOp.err = "undefined-variable"
                 /\ frames = lastOp.fr
            ELSE IF lastOp.name \in lastOp.fr[f].constNames_
            THEN /\ ~lastOp.ok
                 /\ lastOp.err = "reassign-const"
                 /\ frames = lastOp.fr
            ELSE /\ lastOp.ok
                 /\ frames = OneBindingChanged(lastOp.fr, f, lastOp.name,
                                               lastOp.value)
                 /\ EnvGet(frames, lastOp.env, lastOp.name) = lastOp.value

\* set was called on a frame that binds y and not x; its parent binds x and
\* the store went there, past the frame's own bindings.
C26_Witness ==
    /\ lastOp.op = "set"
    /\ lastOp.ok
    /\ lastOp.name = "x"
    /\ lastOp.env # 1
    /\ DOMAIN frames[lastOp.env].bindings_ = {"y"}
    /\ NearestFrame(lastOp.fr, lastOp.env, "x") = frames[lastOp.env].parent_
    /\ EnvGet(frames, lastOp.env, "x") = makeInt(2)
    /\ frames # lastOp.fr

(***************************************************************************)
(* Specification of scopes: matches whose arms bind names, loops, blocks   *)
(* and closure calls whose bodies bind names, at the top level.            *)
(***************************************************************************)
MkPair(a, b) == Call(Identifier("MkPair"), <<IntLiteral(a), IntLiteral(b)>>)

\* MkPair(p, 1): binds p, then fails on MkPair(5, 2).
PairFirstAnd1 ==
    ConstructorPattern("MkPair", <<VarPattern("p"), LiteralPattern(makeInt(1))>>)
\* MkPair(q, r)
PairBoth == ConstructorPattern("MkPair", <<VarPattern("q"), VarPattern("r")>>)

MatchScopeDecls ==
    {ExprDecl(MatchExpr(MkPair(5, 2), arms)) : arms \in {
        <<MatchArm(PairFirstAnd1, NoExpr, IntLiteral(100)),
          MatchArm(PairBoth, BoolLiteral(FALSE), IntLiteral(101)),
          MatchArm(WildcardPattern, NoExpr, Identifier("p"))>>,
        <<MatchArm(PairFirstAnd1, NoExpr, IntLiteral(100)),
          MatchArm(PairBoth, BoolLiteral(FALSE), IntLiteral(101)),
          MatchArm(VarPattern("v"), NoExpr, Identifier("q"))>>,
        <<MatchArm(PairFirstAnd1, NoExpr, IntLiteral(100)),
          MatchArm(PairBoth, BinaryOp("EQ", Identifier("q"), IntLiteral(5)),
                   Identifier("r"))>>}}

BodyScopeDecls ==
    {ExprDecl(e) : e \in {
        LetExpr("go", BoolLiteral(TRUE), FALSE),
        WhileExpr(Identifier("go"),
                  LetExpr("w", AssignExpr("go", BoolLiteral(FALSE)), FALSE)),
        WhileExpr(Identifier("go"),
                  Block(<<FnDef("w", <<>>, IntLiteral(1)),
                          AssignExpr("go", BoolLiteral(FALSE))>>)),
        ForExpr("i", ListExpr(<<IntLiteral(1), IntLiteral(2)>>),
                LetExpr("f", Identifier("i"), FALSE)),
        Block(<<LetExpr("b", IntLiteral(1), FALSE),
                FnDef("g", <<>>, IntLiteral(1))>>),
        FnDef("h", <<"a">>, LetExpr("c", Identifier("a"), FALSE)),
        Call(Identifier("h"), <<IntLiteral(3)>>)}}

ScopeDecls == {PairDef} \cup MatchScopeDecls \cup BodyScopeDecls

NextScope ==
    \/ ReplBegin(MaxScopeDecls)
    \/ \E d \in ScopeDecls : EvalDecl(d, MaxScopeDecls)
    \/ ReplEnd
    \/ ReplCatch

SpecScope == Init /\ [][NextScope]_vars

(***************************************************************************)
(* Properties of scopes.                                                   *)
(***************************************************************************)
\* C27: when matchPattern returns false, the environment it was given holds
\* the bindings it held before the call: no variable of the pattern is bound
\* in it, not even one of a sub-pattern that matched before the one that
\* failed.  (evalMatchExpr hands it a frame that binds nothing.)
C27_FailedMatchBindsNothing ==
    lastOp.op = "evalDecl" =>
        \A i \in 1..Len(lastOp.matches) :
            ~lastOp.matches[i].m => lastOp.matches[i].bound = {}

\* The variables of a pattern.
RECURSIVE PatternVars(_)
PatternVars(p) ==
    CASE p.k = "VarPattern" -> {p.name}
      [] p.k = "ConstructorPattern" ->
            UNION {PatternVars(p.args[i]) : i \in 1..Len(p.args)}
      [] OTHER -> {}

\* The step evaluates a top-level expression of kind k.
EvaluatesA(k) ==
    /\ IsDeclStep
    /\ ThisDecl.k = "ExprPtr"
    /\ ThisDecl.e.k = k

\* Every frame that exists before the step is the same after it.
FramesKept == SubSeq(frames', 1, Len(frames)) = frames

\* C28: the bindings that an arm's pattern introduces are visible to that
\* arm's guard and body only: each arm is matched in a frame of its own, a
\* child of the frame of the match, which binds that arm's variables and no
\* others; no frame that existed before the match is changed; and an arm
\* whose body names a variable of an earlier arm's pattern does not find it.
C28_ArmScope ==
    [][(EvaluatesA("MatchExpr") /\ EnvHas(frames, env_, "MkPair"))
         => LET arms == ThisDecl.e.arms
                calls == lastOp'.matches
                last == arms[Len(calls)]
            IN  /\ FramesKept
                /\ \A i \in 1..Len(calls) :
                     /\ calls[i].env > Len(frames)
                     /\ frames'[calls[i].env].parent_ = env_
                     /\ DOMAIN frames'[calls[i].env].bindings_
                           \subseteq PatternVars(arms[i].pattern)
                     /\ \A j \in 1..Len(calls) :
                          i # j => calls[i].env # calls[j].env
                /\ (/\ calls[Len(calls)].m
                    /\ last.body.k = "Identifier"
                    /\ last.body.name \notin PatternVars(last.pattern))
                      => (mode' = "throwing" /\ lastErr' = "undefined-variable")
                /\ (/\ calls[Len(calls)].m
                    /\ last.guard.k = "BinaryOp"
                    /\ last.body.k = "Identifier"
                    /\ last.body.name \in PatternVars(last.pattern))
                      => (mode' = "running" /\ lastOp'.ok
                          /\ lastOp'.v = makeInt(2))]_vars

\* The third arm of a match on MkPair(5, 2) named p, which the first arm's
\* pattern bound before it failed, after the second arm's guard was false:
\* p was undefined there.
C28_Witness ==
    /\ lastOp.op = "evalDecl"
    /\ lastOp.d.k = "ExprPtr"
    /\ lastOp.d.e.k = "MatchExpr"
    /\ Len(lastOp.matches) = 3
    /\ ~lastOp.matches[1].m
    /\ lastOp.matches[2].m
    /\ lastOp.matches[3].m
    /\ lastOp.d.e.arms[3].body = Identifier("p")
    /\ ~lastOp.ok
    /\ lastErr = "undefined-variable"

\* The names that the step assigns to.
Assigned == {lastOp'.sets[i].name : i \in 1..Len(lastOp'.sets)}

\* C29: a block, each iteration of a while or for-in body, and a closure
\* call evaluate in a fresh child frame: every frame that exists before
\* binds the same names, with the same const marks, after; a binding of such
\* a frame has another value only if the step assigned to its name; and a
\* for-in loop over n items creates n frames, children of the frame of the
\* loop, that bind the loop variable and what the body defines.
C29_FreshChildFrames ==
    [][(\/ EvaluatesA("Block")
        \/ EvaluatesA("WhileExpr")
        \/ EvaluatesA("ForExpr")
        \/ EvaluatesA("Call"))
         => /\ Len(frames') >= Len(frames)
            /\ \A f \in 1..Len(frames) :
                 /\ DOMAIN frames'[f].bindings_ = DOMAIN frames[f].bindings_
                 /\ frames'[f].constNames_ = frames[f].constNames_
                 /\ frames'[f].parent_ = frames[f].parent_
                 /\ \A n \in DOMAIN frames[f].bindings_ :
                        frames'[f].bindings_[n] # frames[f].bindings_[n]
                            => n \in Assigned
            /\ EvaluatesA("ForExpr") =>
                 /\ Len(frames') = Len(frames) + Len(ThisDecl.e.iterable.elements)
                 /\ \A f \in (Len(frames) + 1)..Len(frames') :
                      /\ frames'[f].parent_ = env_
                      /\ DOMAIN frames'[f].bindings_ = {"i", "f"}
            /\ (EvaluatesA("WhileExpr") /\ lastOp'.ok /\ Assigned # {}) =>
                 /\ Len(frames') > Len(frames)
                 /\ frames'[Len(frames) + 1].parent_ = env_
                 /\ "w" \in DOMAIN frames'[Len(frames')].bindings_]_vars

\* After `let go = true` a while loop ran its body once: the body's w is
\* in a new frame, go is false in the top-level frame, and the top-level
\* frame binds no w.
C29_Witness ==
    /\ lastOp.op = "evalDecl"
    /\ lastOp.d.k = "ExprPtr"
    /\ lastOp.d.e.k = "WhileExpr"
    /\ lastOp.ok
    /\ Len(lastOp.sets) = 1
    /\ EnvGet(frames, env_, "go") = makeBool(FALSE)
    /\ "w" \notin DOMAIN frames[env_].bindings_
    /\ "w" \in DOMAIN frames[Len(frames)].bindings_

====
